---- MODULE Spec2Model ----
(***************************************************************************)
(* QuizChain backend: the room store (RoomService), the socket handlers    *)
(* of roomHandlers.js (second, Yellow-enabled revision), the question      *)
(* timers and the connection lifecycle of server.js, as one state machine. *)
(* Every handler invocation is one action; a handler that awaits is split  *)
(* at the await into the call and its continuation.                        *)
(***************************************************************************)
EXTENDS Integers, Sequences, FiniteSets, Bags, TLC

\* ------------------------------------------------------------------ bounds
\* largest number of questions the question source hands back
MaxFetched == 2
\* answers held by the room store at any time
MaxAnswers == 2

\* ------------------------------------------------------- program constants
QuestionCount == 3
Points == 10
TimeLimit == 30

\* ------------------------------------------------------------- input sets
Sockets == {"s1", "s2"}
\* the wallet addresses a connection registers with
WalletsOf == [s \in Sockets |-> IF s = "s1" THEN {"w1"} ELSE {"w2", "w3"}]
MaxPlayersInputs == {1, 2}
EntryFeeInputs == {0}
\* the codes generateRoomCode hands out, and the codes a join asks for
Codes == {"A1B2C3"}
JoinCodes == {"A1B2C3"}
CorrectAnswers == {0}
AnswerInputs == {0, 1}
TimeRemainingInputs == {5}

\* the ids of the rooms created in one run (a room id is never reused)
RoomIds == {1}
NoSocket == "null"
NoRoom == 0
NoPassword == "null"
NullGame == [null |-> TRUE]
NullSession == [null |-> TRUE]

VARIABLES
  users,    \* global.users: socket id -> {walletAddress, currentRoomId}
  closed,   \* sockets that have disconnected (a socket id is never reused)
  rooms,    \* global.rooms: room id -> room, in insertion (= id) order
  nextId,   \* the id the next created room gets
  starts,   \* room:startGame invocations suspended on an await (a bag)
  timers,   \* armed setTimeout callbacks (a bag)
  settles,  \* closeAppSession calls of endGame not yet settled (a bag)
  hist,     \* per room id: the code it was created with, how often gameData
            \* was initialised and a timer chain started, and the question
            \* numbers broadcast so far (observation only)
  out       \* what the last handler invocation answered and emitted

vars == <<users, closed, rooms, nextId, starts, timers, settles, hist, out>>

\* ----------------------------------------------------------------- helpers
\* io.to(room).emit(event, ...): the event, its room and what tells it from
\* other notifications of that event (a reason or error text, or the player
\* of a score update; a question number or an amount)
Emit(ev, rid, reason, n) == [event |-> ev, room |-> rid, reason |-> reason, n |-> n]
\* the callback result ("" is success) and the notifications of a handler
\* invocation that changed the state
Out(op, rid, err, emits) == [op |-> op, room |-> rid, error |-> err, emits |-> emits]

Put(f, k, v) == [x \in DOMAIN f \cup {k} |-> IF x = k THEN v ELSE f[x]]
Drop(f, k) == [x \in DOMAIN f \ {k} |-> f[x]]

RemoveAt(seq, i) == [j \in 1..(Len(seq) - 1) |-> IF j < i THEN seq[j] ELSE seq[j + 1]]

\* Array.prototype.findIndex, 1-based; 0 stands for -1
FindIndex(seq, P(_)) ==
  IF \E i \in 1..Len(seq) : P(seq[i])
    THEN CHOOSE i \in 1..Len(seq) : P(seq[i]) /\ \A j \in 1..(i - 1) : ~P(seq[j])
    ELSE 0

ParticipantWallets(room) == {room.participants[i].walletAddress : i \in 1..Len(room.participants)}

\* ------------------------------------------------------------- RoomService
\* a number of a request that is a multiple of 1/2: whole + half/2 with
\* whole >= 0 and half in {0, 1}
Num(whole, half) == [whole |-> whole, half |-> half]
\* n < k and n > k for an integer k
NumLess(n, k) == n.whole < k
NumGreater(n, k) == n.whole > k \/ (n.whole = k /\ n.half > 0)
\* parseInt of a non-negative number: the digits before the decimal point
parseInt(n) == n.whole
\* parseFloat of a number is that number (entry fees are whole numbers here)
parseFloat(x) == x

\* String.prototype.trim and toUpperCase on the strings of the input sets
Trim(str) == IF str \in {" ", "  "} THEN "" ELSE str
ToUpperCase(str) == IF str = "a1b2c3" THEN "A1B2C3" ELSE IF str = "d4e5f6" THEN "D4E5F6" ELSE str

Assets == {"USDC", "USDT", "DAI", "USDC.e", "WETH", "WBTC"}
ValidTopics == {"Random", "All", "Age", "ProfitAndLoss", "SpeedTimeDistance", "MixtureAndAlligation",
                "PipesAndCisterns", "SimpleInterest", "Calendars", "PermutationAndCombination"}

\* the roomConfig of a client that fills in only the entry fee and the
\* number of players of a public room
DefaultConfig(mp, fee) ==
  [ entryFee |-> fee, asset |-> "USDC", maxPlayers |-> Num(mp, 0), topic |-> "Random",
    password |-> NoPassword, isPublic |-> TRUE ]

\* createRoom that takes any non-empty password for a private room
createRoomErrorNoTrim(cfg) ==
  IF cfg.entryFee < 0 \/ cfg.entryFee > 1000 THEN "Entry fee must be between 0 and 1000"
  ELSE IF cfg.asset \notin Assets THEN "Asset must be USDC, USDT, DAI, USDC.e, WETH, or WBTC"
  ELSE IF NumLess(cfg.maxPlayers, 2) \/ NumGreater(cfg.maxPlayers, 10) THEN "Max players must be between 2 and 10"
  ELSE IF cfg.topic \notin ValidTopics THEN "Topic must be one of the valid topics"
  ELSE IF ~cfg.isPublic /\ cfg.password \in {NoPassword, ""} THEN "Private rooms require a password"
  ELSE ""

\* createRoom: the validation chain; "" when the config is accepted
createRoomError(cfg) ==
  IF cfg.entryFee < 0 \/ cfg.entryFee > 1000 THEN "Entry fee must be between 0 and 1000"
  ELSE IF cfg.asset \notin Assets THEN "Asset must be USDC, USDT, DAI, USDC.e, WETH, or WBTC"
  ELSE IF NumLess(cfg.maxPlayers, 2) \/ NumGreater(cfg.maxPlayers, 10) THEN "Max players must be between 2 and 10"
  ELSE IF cfg.topic \notin ValidTopics THEN "Topic must be one of the valid topics"
  ELSE IF ~cfg.isPublic /\ (cfg.password \in {NoPassword, ""} \/ Trim(cfg.password) = "")
    THEN "Private rooms require a password"
  ELSE ""

\* the room object createRoom stores
NewRoom(w, cfg, code) ==
  [ code |-> code,
    host |-> [walletAddress |-> w, socketId |-> NoSocket],
    config |-> [ entryFee |-> parseFloat(cfg.entryFee),
                 asset |-> cfg.asset,
                 maxPlayers |-> parseInt(cfg.maxPlayers),
                 topic |-> cfg.topic,
                 password |-> IF cfg.password = "" THEN NoPassword ELSE cfg.password,
                 isPublic |-> cfg.isPublic ],
    participants |-> <<>>,
    status |-> "waiting",
    gameData |-> NullGame,
    yellowSession |-> NullSession ]

\* findRoomByCode: the id of the first room in store order whose code is
\* the upper-cased argument; NoRoom when there is none
findRoomByCode(code) ==
  LET found == {r \in DOMAIN rooms : rooms[r].code = ToUpperCase(code)} IN
  IF found = {} THEN NoRoom ELSE CHOOSE r \in found : \A q \in found : r <= q

\* createRoom: the number of candidate codes tested against the store
MaxAttempts == 10

\* the code loop that gives up only after every candidate, the one
\* generated last included, was tested
GeneratedCodeTestsAll(draws) ==
  LET free == {i \in 1..(MaxAttempts + 1) : findRoomByCode(draws[i]) = NoRoom} IN
  IF free = {} THEN 0 ELSE CHOOSE i \in free : \A j \in free : i <= j

\* createRoom, the code loop: a candidate is generated and tested against
\* the store at most MaxAttempts times. The position in draws of the code
\* the loop leaves with; 0 when each of the first MaxAttempts draws is taken
GeneratedCode(draws) ==
  LET free == {i \in 1..MaxAttempts : findRoomByCode(draws[i]) = NoRoom} IN
  IF free = {} THEN 0 ELSE CHOOSE i \in free : \A j \in free : i <= j

\* the sequences generateRoomCode may hand to one createRoom call: k times
\* one code, another from then on
Draws(codes) ==
  {[i \in 1..(MaxAttempts + 1) |-> IF i <= k THEN a ELSE b] : a \in codes, b \in codes, k \in {0, 1, MaxAttempts}}

\* joinRoom without the search for the caller among the participants
joinRoomErrorNoJoinedCheck(code, w, password) ==
  IF findRoomByCode(code) = NoRoom THEN "Room not found"
  ELSE LET room == rooms[findRoomByCode(code)] IN
    IF room.status # "waiting" THEN "Room has already started or ended"
    ELSE IF Len(room.participants) >= room.config.maxPlayers THEN "Room is full"
    ELSE IF room.config.password # NoPassword /\ room.config.password # password THEN "Incorrect password"
    ELSE IF room.host.walletAddress = w THEN "Host cannot join as participant"
    ELSE ""

\* joinRoom that compares the password before it looks at the status and
\* the number of participants
joinRoomErrorPasswordFirst(code, w, password) ==
  IF findRoomByCode(code) = NoRoom THEN "Room not found"
  ELSE LET room == rooms[findRoomByCode(code)] IN
    IF room.config.password # NoPassword /\ room.config.password # password THEN "Incorrect password"
    ELSE IF room.status # "waiting" THEN "Room has already started or ended"
    ELSE IF Len(room.participants) >= room.config.maxPlayers THEN "Room is full"
    ELSE IF w \in ParticipantWallets(room) THEN "You have already joined this room"
    ELSE IF room.host.walletAddress = w THEN "Host cannot join as participant"
    ELSE ""

\* joinRoom: the checks in source order; "" when the join is accepted
joinRoomError(code, w, password) ==
  IF findRoomByCode(code) = NoRoom THEN "Room not found"
  ELSE LET room == rooms[findRoomByCode(code)] IN
    IF room.status # "waiting" THEN "Room has already started or ended"
    ELSE IF Len(room.participants) >= room.config.maxPlayers THEN "Room is full"
    ELSE IF room.config.password # NoPassword /\ room.config.password # password THEN "Incorrect password"
    ELSE IF w \in ParticipantWallets(room) THEN "You have already joined this room"
    ELSE IF room.host.walletAddress = w THEN "Host cannot join as participant"
    ELSE ""

\* sanitizeRoom: the view of a room that is sent to clients
sanitizeRoom(room) ==
  [ code |-> room.code,
    host |-> [walletAddress |-> room.host.walletAddress],
    config |-> [ entryFee |-> room.config.entryFee,
                 asset |-> room.config.asset,
                 maxPlayers |-> room.config.maxPlayers,
                 topic |-> room.config.topic,
                 isPublic |-> room.config.isPublic,
                 hasPassword |-> room.config.password # NoPassword ],
    participants |-> [i \in 1..Len(room.participants) |->
                        [walletAddress |-> room.participants[i].walletAddress]],
    status |-> room.status,
    currentPlayers |-> Len(room.participants) + 1 ]

\* getPublicRooms: the views of the public rooms that are 'waiting', by id
getPublicRooms ==
  [r \in {q \in DOMAIN rooms : rooms[q].config.isPublic /\ rooms[q].status = "waiting"} |->
     sanitizeRoom(rooms[r])]

\* socket.on('room:get'): the view of the room the store has under this id
roomGet(rid) == sanitizeRoom(rooms[rid])

\* updateParticipantSocket on a room value
updateParticipantSocket(room, w, s) ==
  IF room.host.walletAddress = w
    THEN [room EXCEPT !.host.socketId = s]
    ELSE LET i == FindIndex(room.participants, LAMBDA p : p.walletAddress = w) IN
         IF i = 0 THEN room ELSE [room EXCEPT !.participants[i].socketId = s]

\* leaveRoom: the index of the participant to splice out, 0 if not in room
leaveRoomIndex(room, w) == FindIndex(room.participants, LAMBDA p : p.walletAddress = w)

\* removeUserBySocket: does the loop body match this room
BoundTo(room, s) ==
  \/ room.host.socketId = s
  \/ \E i \in 1..Len(room.participants) : room.participants[i].socketId = s

\* removeUserBySocket: the first room, in store order, that has the socket
\* as host or as a participant; NoRoom when the loop falls through
FirstBoundRoom(s) ==
  IF \E r \in DOMAIN rooms : BoundTo(rooms[r], s)
    THEN CHOOSE r \in DOMAIN rooms :
           BoundTo(rooms[r], s) /\ \A q \in DOMAIN rooms : BoundTo(rooms[q], s) => r <= q
    ELSE NoRoom

\* removeUserBySocket: the room store afterwards
removeUserBySocket(s) ==
  LET r == FirstBoundRoom(s) IN
  IF r = NoRoom THEN rooms
  ELSE LET room == rooms[r] IN
    IF room.host.socketId = s
      THEN IF room.status = "waiting"
             THEN Drop(rooms, r)
             ELSE [rooms EXCEPT ![r].host.socketId = NoSocket]
      ELSE LET i == FindIndex(room.participants, LAMBDA p : p.socketId = s) IN
           IF room.status = "waiting"
             THEN [rooms EXCEPT ![r].participants = RemoveAt(@, i)]
             ELSE [rooms EXCEPT ![r].participants[i].socketId = NoSocket]

\* removeUserBySocket: the roomDeleted flag of its result
roomDeleted(s) ==
  LET r == FirstBoundRoom(s) IN
  r # NoRoom /\ rooms[r].host.socketId = s /\ rooms[r].status = "waiting"

\* ---------------------------------------------------------- reply chains
\* the early returns of a handler, in source order; "" when it goes on
CurrentRoom(s) == IF s \in DOMAIN users THEN users[s].currentRoomId ELSE NoRoom

roomLeaveError(s) ==
  IF s \notin DOMAIN users \/ CurrentRoom(s) = NoRoom THEN "Not in a room"
  ELSE IF CurrentRoom(s) \notin DOMAIN rooms THEN "Room not found"
  ELSE LET room == rooms[CurrentRoom(s)]
           w == users[s].walletAddress
       IN IF room.host.walletAddress = w /\ room.status = "waiting" THEN ""
          ELSE IF leaveRoomIndex(room, w) = 0 THEN "User not in room"
          ELSE ""

\* startGameError without the status check
startGameErrorNoStatus(s) ==
  IF s \notin DOMAIN users \/ CurrentRoom(s) = NoRoom THEN "Not in a room"
  ELSE IF CurrentRoom(s) \notin DOMAIN rooms THEN "Room not found"
  ELSE LET room == rooms[CurrentRoom(s)] IN
    IF room.host.walletAddress # users[s].walletAddress THEN "Only host can start the game"
    ELSE IF Len(room.participants) < 1 THEN "Need at least 2 players to start"
    ELSE ""

\* startGameError without the host check
startGameErrorNoHost(s) ==
  IF s \notin DOMAIN users \/ CurrentRoom(s) = NoRoom THEN "Not in a room"
  ELSE IF CurrentRoom(s) \notin DOMAIN rooms THEN "Room not found"
  ELSE LET room == rooms[CurrentRoom(s)] IN
    IF Len(room.participants) < 1 THEN "Need at least 2 players to start"
    ELSE IF room.status # "waiting" THEN "Game already started"
    ELSE ""

startGameError(s) ==
  IF s \notin DOMAIN users \/ CurrentRoom(s) = NoRoom THEN "Not in a room"
  ELSE IF CurrentRoom(s) \notin DOMAIN rooms THEN "Room not found"
  ELSE LET room == rooms[CurrentRoom(s)] IN
    IF room.host.walletAddress # users[s].walletAddress THEN "Only host can start the game"
    ELSE IF Len(room.participants) < 1 THEN "Need at least 2 players to start"
    ELSE IF room.status # "waiting" THEN "Game already started"
    ELSE ""

\* HasAnswer that never finds the stored answer
HasAnswerNever(gd, w, qi) == FALSE

\* has this address a stored answer at this 0-based question index
HasAnswer(gd, w, qi) == w \in DOMAIN gd.playerAnswers /\ qi \in DOMAIN gd.playerAnswers[w]

submitAnswerError(s, questionNumber) ==
  IF s \notin DOMAIN users \/ CurrentRoom(s) = NoRoom THEN "Not in a room"
  ELSE IF CurrentRoom(s) \notin DOMAIN rooms THEN "Game not active"
  ELSE LET gd == rooms[CurrentRoom(s)].gameData
           qi == questionNumber - 1
       IN IF gd = NullGame THEN "Game not active"
          ELSE IF qi < 0 \/ qi >= Len(gd.questions) THEN "Invalid question number"
          ELSE IF HasAnswer(gd, users[s].walletAddress, qi) THEN "Already answered this question"
          ELSE ""

\* ------------------------------------------------------------ game helpers
\* what the question source can hand back: 1..count formatted questions
Question(c) == [correctAnswer |-> c, points |-> Points, timeLimit |-> TimeLimit]

\* what the trivia API answers: the options and the text of the right one
RawOptions == {<<>>, <<"a", "b">>, <<"b", "c", "a">>}
RawAnswers == {"a", "b", "c", "z"}
RawQuestions == [options : RawOptions, answer : RawAnswers]

\* formatQuestion that stores the index findIndex returned, found or not
formatQuestionKeepsNotFound(raw) ==
  Question(FindIndex(raw.options, LAMBDA opt : opt = raw.answer) - 1)

\* formatQuestion: the stored correct option is the 0-based index of the
\* answer among the options, or 0 when it is not among them
formatQuestion(raw) ==
  LET correctAnswerIndex == FindIndex(raw.options, LAMBDA opt : opt = raw.answer) - 1
  IN Question(IF correctAnswerIndex # -1 THEN correctAnswerIndex ELSE 0)

MaxLen == IF MaxFetched < QuestionCount THEN MaxFetched ELSE QuestionCount
QuestionLists == UNION {[1..n -> {Question(c) : c \in CorrectAnswers}] : n \in 1..MaxLen}

\* allPlayers without the host
AllPlayersNoHost(room) ==
  [i \in 1..Len(room.participants) |-> room.participants[i].walletAddress]

\* allPlayers of room:startGame: the host, then the participants
AllPlayers(room) ==
  <<room.host.walletAddress>> \o [i \in 1..Len(room.participants) |-> room.participants[i].walletAddress]

\* the gameData room:startGame builds
NewGameData(room, questions) ==
  LET all == {AllPlayers(room)[i] : i \in 1..Len(AllPlayers(room))} IN
  [ questions |-> questions,
    currentQuestionIndex |-> 0,
    playerAnswers |-> [w \in all |-> <<>>],
    playerScores |-> [w \in all |-> 0],
    \* the keys of playerScores in insertion order (Object.entries order)
    scoreOrder |-> AllPlayers(room) ]

Max(a, b) == IF a >= b THEN a ELSE b

\* Score without the clamp of the time bonus at 0
ScoreNoClamp(question, answer, timeRemaining) ==
  IF answer = question.correctAnswer THEN question.points + timeRemaining ELSE 0

\* the score of a submission
Score(question, answer, timeRemaining) ==
  IF answer = question.correctAnswer THEN question.points + Max(0, timeRemaining) ELSE 0

\* StoreAnswer that moves on to the next question once every player has
\* answered the current one
StoreAnswerAndAdvance(gd, w, qi, answer, timeRemaining) ==
  LET question == gd.questions[qi + 1]
      score == IF answer = question.correctAnswer THEN question.points + Max(0, timeRemaining) ELSE 0
      rec == [answer |-> answer, isCorrect |-> (answer = question.correctAnswer),
              timeRemaining |-> timeRemaining, score |-> score]
      old == IF w \in DOMAIN gd.playerAnswers THEN gd.playerAnswers[w] ELSE <<>>
      prev == IF w \in DOMAIN gd.playerScores THEN gd.playerScores[w] ELSE 0
      stored == [gd EXCEPT !.playerAnswers = Put(@, w, Put(old, qi, rec)),
                           !.playerScores = Put(@, w, prev + score),
                           !.scoreOrder = IF w \in DOMAIN gd.playerScores THEN @ ELSE Append(@, w)]
  IN IF \A x \in DOMAIN stored.playerScores : gd.currentQuestionIndex \in DOMAIN stored.playerAnswers[x]
       THEN [stored EXCEPT !.currentQuestionIndex = @ + 1]
       ELSE stored

\* StoreAnswer that sets the total to the new score instead of adding it
StoreAnswerSetsTotal(gd, w, qi, answer, timeRemaining) ==
  LET question == gd.questions[qi + 1]
      score == IF answer = question.correctAnswer THEN question.points + Max(0, timeRemaining) ELSE 0
      rec == [answer |-> answer, isCorrect |-> (answer = question.correctAnswer),
              timeRemaining |-> timeRemaining, score |-> score]
      old == IF w \in DOMAIN gd.playerAnswers THEN gd.playerAnswers[w] ELSE <<>>
  IN [gd EXCEPT !.playerAnswers = Put(@, w, Put(old, qi, rec)),
                !.playerScores = Put(@, w, score),
                !.scoreOrder = IF w \in DOMAIN gd.playerScores THEN @ ELSE Append(@, w)]

\* the gameData after game:submitAnswer stored an answer
StoreAnswer(gd, w, qi, answer, timeRemaining) ==
  LET question == gd.questions[qi + 1]
      score == Score(question, answer, timeRemaining)
      rec == [answer |-> answer, isCorrect |-> (answer = question.correctAnswer),
              timeRemaining |-> timeRemaining, score |-> score]
      old == IF w \in DOMAIN gd.playerAnswers THEN gd.playerAnswers[w] ELSE <<>>
      prev == IF w \in DOMAIN gd.playerScores THEN gd.playerScores[w] ELSE 0
  IN [gd EXCEPT !.playerAnswers = Put(@, w, Put(old, qi, rec)),
                !.playerScores = Put(@, w, prev + score),
                !.scoreOrder = IF w \in DOMAIN gd.playerScores THEN @ ELSE Append(@, w)]

\* Array.prototype.sort with (a, b) => b.score - a.score: descending by
\* score, entries of equal score in their order of the input (the sort is
\* stable); an entry lands behind those of higher score and those of equal
\* score that precede it in the input
SortByScore(entries) ==
  LET Rank(e, i) == 1 + Cardinality({j \in 1..Len(e) : e[j].score > e[i].score})
                      + Cardinality({j \in 1..(i - 1) : e[j].score = e[i].score})
      Sorted(e) == [k \in 1..Len(e) |-> e[CHOOSE i \in 1..Len(e) : Rank(e, i) = k]]
  IN \* the input is evaluated once
     CHOOSE sorted \in {Sorted(e) : e \in {entries}} : TRUE

\* one leaderboard entry per key of playerScores, in key order
LeaderboardEntries(room) ==
  LET gd == room.gameData IN
  [i \in 1..Len(gd.scoreOrder) |->
     LET w == gd.scoreOrder[i] IN
     [ walletAddress |-> w,
       score |-> gd.playerScores[w],
       correctAnswers |->
         IF w \in DOMAIN gd.playerAnswers
           THEN Cardinality({qi \in DOMAIN gd.playerAnswers[w] : gd.playerAnswers[w][qi].isCorrect})
           ELSE 0 ]]

\* calculateLeaderboard without the sort
calculateLeaderboardUnsorted(room) == LeaderboardEntries(room)

calculateLeaderboard(room) == SortByScore(LeaderboardEntries(room))

StoredCount(gd) ==
  LET Count[S \in SUBSET DOMAIN gd.playerAnswers] ==
        IF S = {} THEN 0
        ELSE LET w == CHOOSE x \in S : TRUE
             IN Cardinality(DOMAIN gd.playerAnswers[w]) + Count[S \ {w}]
  IN Count[DOMAIN gd.playerAnswers]

StoredTotal ==
  LET Total[S \in SUBSET DOMAIN rooms] ==
        IF S = {} THEN 0
        ELSE LET r == CHOOSE x \in S : TRUE
             IN (IF rooms[r].gameData = NullGame THEN 0 ELSE StoredCount(rooms[r].gameData))
                + Total[S \ {r}]
  IN Total[DOMAIN rooms]

\* how the question fetch fails: fetchQuestions throws, or hands back no question
FetchErrors == {"Failed to fetch questions", "No questions available for this topic"}

Timer(kind, rid, idx) == [kind |-> kind, room |-> rid, idx |-> idx]
Pending(rid, phase) == [room |-> rid, phase |-> phase]
One(x) == SetToBag({x})

\* global.yellowService.closeAppSession(sessionId, winnerAddress, prizeAmount),
\* recorded with the notifications of the handler that calls it
CloseAppSession(rid, winner, prizeAmount) ==
  [event |-> "yellow:closeAppSession", room |-> rid, reason |-> winner, n |-> prizeAmount]

\* the promise of closeAppSession(sessionId, winnerAddress, prizeAmount)
\* with the .then/.catch chain endGame attached to it
Settlement(rid, winner, prizeAmount) == [room |-> rid, winner |-> winner, amount |-> prizeAmount]

\* how a settlement ends: session closed and prize distributed; session
\* closed and distributePrizeLedger failed or threw; closeAppSession
\* answered success false or rejected
SettleOutcomes == {"distributed", "Prize distribution failed", "Session close failed"}

\* endGame that announces the end of the game only once the settlement
\* session is closed
endGameAfterClose(rms, rid) ==
  IF rid \notin DOMAIN rms \/ rms[rid].gameData = NullGame
    THEN [rooms |-> rms, arm |-> EmptyBag, settle |-> EmptyBag, emits |-> {}]
    ELSE LET room == rms[rid]
             rankings == calculateLeaderboard(room)
             prizeAmount == room.config.entryFee * (1 + Len(room.participants))
         IN IF room.yellowSession # NullSession /\ Len(rankings) > 0
              THEN [rooms |-> [rms EXCEPT ![rid].status = "completed"],
                    arm |-> EmptyBag,
                    settle |-> One(Settlement(rid, rankings[1].walletAddress, prizeAmount)),
                    emits |-> {CloseAppSession(rid, rankings[1].walletAddress, prizeAmount)}]
              ELSE [rooms |-> [rms EXCEPT ![rid].status = "completed"],
                    arm |-> One(Timer("cleanup", rid, 0)),
                    settle |-> EmptyBag,
                    emits |-> {Emit("game:ended", rid, "", 0)}]

\* endGame on a room store: the store, the timers it arms, the settlement
\* it leaves running, what it emits
endGame(rms, rid) ==
  IF rid \notin DOMAIN rms \/ rms[rid].gameData = NullGame
    THEN [rooms |-> rms, arm |-> EmptyBag, settle |-> EmptyBag, emits |-> {}]
    ELSE LET room == rms[rid]
             rankings == calculateLeaderboard(room)
             prizeAmount == room.config.entryFee * (1 + Len(room.participants))
             closing == room.yellowSession # NullSession /\ Len(rankings) > 0
         IN [rooms |-> [rms EXCEPT ![rid].status = "completed"],
             arm |-> One(Timer("cleanup", rid, 0)),
             settle |-> IF closing
                          THEN One(Settlement(rid, rankings[1].walletAddress, prizeAmount))
                          ELSE EmptyBag,
             emits |-> {Emit("game:ended", rid, "", 0)} \cup
                       (IF closing
                          THEN {CloseAppSession(rid, rankings[1].walletAddress, prizeAmount)}
                          ELSE {})]

\* sendNextQuestion that arms no deadline timer
sendNextQuestionNoTimer(rms, rid) ==
  IF rid \notin DOMAIN rms \/ rms[rid].gameData = NullGame
    THEN [rooms |-> rms, arm |-> EmptyBag, settle |-> EmptyBag, emits |-> {}]
    ELSE LET gd == rms[rid].gameData IN
      IF gd.currentQuestionIndex >= Len(gd.questions)
        THEN endGame(rms, rid)
        ELSE [rooms |-> rms,
              arm |-> EmptyBag,
              settle |-> EmptyBag,
              emits |-> {Emit("game:question", rid, "", gd.currentQuestionIndex + 1)}]

\* sendNextQuestion that tells the room when it finds no game
sendNextQuestionReportMissing(rms, rid) ==
  IF rid \notin DOMAIN rms \/ rms[rid].gameData = NullGame
    THEN [rooms |-> rms, arm |-> EmptyBag, settle |-> EmptyBag,
          emits |-> {Emit("game:error", rid, "Room or game data not found", 0)}]
    ELSE LET gd == rms[rid].gameData IN
      IF gd.currentQuestionIndex >= Len(gd.questions)
        THEN endGame(rms, rid)
        ELSE [rooms |-> rms,
              arm |-> One(Timer("deadline", rid, gd.currentQuestionIndex)),
              settle |-> EmptyBag,
              emits |-> {Emit("game:question", rid, "", gd.currentQuestionIndex + 1)}]

\* sendNextQuestion on a room store
sendNextQuestion(rms, rid) ==
  IF rid \notin DOMAIN rms \/ rms[rid].gameData = NullGame
    THEN [rooms |-> rms, arm |-> EmptyBag, settle |-> EmptyBag, emits |-> {}]
    ELSE LET gd == rms[rid].gameData IN
      IF gd.currentQuestionIndex >= Len(gd.questions)
        THEN endGame(rms, rid)
        ELSE [rooms |-> rms,
              arm |-> One(Timer("deadline", rid, gd.currentQuestionIndex)),
              settle |-> EmptyBag,
              emits |-> {Emit("game:question", rid, "", gd.currentQuestionIndex + 1)}]

\* the game:question notification that carries the stored question itself
QuestionMessageWhole(gd, qi) ==
  [ questionNumber |-> qi + 1,
    totalQuestions |-> Len(gd.questions),
    correctAnswer |-> gd.questions[qi + 1].correctAnswer,
    timeLimit |-> gd.questions[qi + 1].timeLimit,
    points |-> gd.questions[qi + 1].points ]

\* what sendNextQuestion sends with game:question for the question at
\* index qi (the text, the options and the topic are strings the model
\* does not hold)
QuestionMessage(gd, qi) ==
  [ questionNumber |-> qi + 1,
    totalQuestions |-> Len(gd.questions),
    timeLimit |-> gd.questions[qi + 1].timeLimit,
    points |-> gd.questions[qi + 1].points ]

\* what game:submitAnswer sends with game:scoreUpdate after it stored the
\* answer of w to question qn
ScoreUpdateMessage(room, w, qn) ==
  [ player |-> w,
    questionNumber |-> qn,
    isCorrect |-> room.gameData.playerAnswers[w][qn - 1].isCorrect,
    score |-> room.gameData.playerAnswers[w][qn - 1].score,
    totalScore |-> room.gameData.playerScores[w],
    leaderboard |-> calculateLeaderboard(room) ]

\* what game:submitAnswer hands to the callback of the submitter
SubmitReply(room, w, qn) ==
  [ success |-> TRUE,
    isCorrect |-> room.gameData.playerAnswers[w][qn - 1].isCorrect,
    score |-> room.gameData.playerAnswers[w][qn - 1].score,
    totalScore |-> room.gameData.playerScores[w],
    correctAnswer |-> room.gameData.questions[qn].correctAnswer ]

\* the payload of notification e, sent by a handler that left the store rms
Message(e, rms) ==
  CASE e.event = "game:question" -> QuestionMessage(rms[e.room].gameData, e.n - 1)
    [] e.event = "game:scoreUpdate" -> ScoreUpdateMessage(rms[e.room], e.reason, e.n)
    [] e.event = "game:ended" ->
         [ rankings |-> calculateLeaderboard(rms[e.room]),
           totalQuestions |-> Len(rms[e.room].gameData.questions),
           prizePool |-> IF rms[e.room].yellowSession # NullSession
                           THEN rms[e.room].config.entryFee * (1 + Len(rms[e.room].participants))
                           ELSE 0,
           asset |-> rms[e.room].config.asset ]
    [] e.event = "game:ready" ->
         [ totalQuestions |-> Len(rms[e.room].gameData.questions),
           timePerQuestion |-> 30, pointsPerQuestion |-> 10, topic |-> rms[e.room].config.topic ]
    [] e.event \in {"room:created", "room:playerJoined", "room:playerLeft", "room:statusUpdate",
                    "room:gameStarting"} ->
         [room |-> sanitizeRoom(rms[e.room])]
    [] e.event = "game:prizeDistributed" -> [amount |-> e.n, success |-> e.reason = ""]
    [] OTHER -> [reason |-> e.reason]

\* what the handler of the last state-changing step handed to its callback
Reply(o, rms) ==
  CASE o.op = "game:submitAnswer" ->
         LET e == CHOOSE x \in o.emits : x.event = "game:scoreUpdate"
         IN SubmitReply(rms[o.room], e.reason, e.n)
    [] o.op = "room:create" -> [success |-> TRUE, roomId |-> o.room, room |-> sanitizeRoom(rms[o.room])]
    [] o.op = "room:join" -> [success |-> TRUE, room |-> sanitizeRoom(rms[o.room])]
    [] o.op = "room:startGame" /\ o.error = "" ->
         [success |-> TRUE, questionCount |-> Len(rms[o.room].gameData.questions)]
    [] o.op = "room:startGame" /\ o.error \notin {"", "pending"} -> [success |-> FALSE, error |-> o.error]
    [] o.op = "room:leave" -> [success |-> TRUE]
    [] OTHER -> [none |-> TRUE]

\* the question numbers of the game:question notifications among emits,
\* appended to the record of what the room was sent
Broadcast(h, emits) ==
  LET qs == {e \in emits : e.event = "game:question"} IN
  IF qs = {} THEN h
  ELSE LET e == CHOOSE x \in qs : TRUE IN [h EXCEPT ![e.room].asked = Append(@, e.n)]

\* -------------------------------------------------------------------- Init
Init ==
  /\ users = <<>>
  /\ closed = {}
  /\ rooms = <<>>
  /\ nextId = 1
  /\ starts = EmptyBag
  /\ timers = EmptyBag
  /\ settles = EmptyBag
  /\ hist = [r \in RoomIds |-> [code |-> "", inits |-> 0, chains |-> 0, asked |-> <<>>]]
  /\ out = Out("init", NoRoom, "", {})

\* ---------------------------------------------------------------- handlers
\* socket.on('user:connect'): (re)registers the connection
UserConnect(s, w) ==
  /\ s \notin closed
  /\ users' = Put(users, s, [walletAddress |-> w, currentRoomId |-> NoRoom])
  /\ out' = Out("user:connect", NoRoom, "", {})
  /\ UNCHANGED <<closed, rooms, nextId, starts, timers, hist, settles>>

\* socket.on('room:create')
RoomCreate(s, cfg, draws) ==
  /\ s \notin closed
  /\ IF s \notin DOMAIN users \/ createRoomError(cfg) # "" \/ GeneratedCode(draws) = 0
       THEN UNCHANGED <<users, rooms, nextId, hist, out>>
       ELSE /\ nextId \in DOMAIN hist
            /\ LET w == users[s].walletAddress
                   room == updateParticipantSocket(NewRoom(w, cfg, draws[GeneratedCode(draws)]), w, s)
               IN /\ rooms' = Put(rooms, nextId, room)
                  /\ users' = [users EXCEPT ![s].currentRoomId = nextId]
                  /\ nextId' = nextId + 1
                  /\ hist' = [hist EXCEPT ![nextId].code = room.code]
                  /\ out' = Out("room:create", nextId, "",
                                IF room.config.isPublic THEN {Emit("room:created", nextId, "", 0)} ELSE {})
  /\ UNCHANGED <<closed, starts, timers, settles>>

\* socket.on('room:join')
RoomJoin(s, code, password) ==
  /\ s \notin closed
  /\ IF s \notin DOMAIN users \/ joinRoomError(code, users[s].walletAddress, password) # ""
       THEN UNCHANGED <<users, rooms, out>>
       ELSE LET w == users[s].walletAddress
                rid == findRoomByCode(code)
                joined == [rooms[rid] EXCEPT !.participants =
                             Append(@, [walletAddress |-> w, socketId |-> NoSocket])]
            IN /\ rooms' = [rooms EXCEPT ![rid] = updateParticipantSocket(joined, w, s)]
               /\ users' = [users EXCEPT ![s].currentRoomId = rid]
               /\ out' = Out("room:join", rid, "", {Emit("room:playerJoined", rid, "", 0)})
  /\ UNCHANGED <<closed, nextId, starts, timers, hist, settles>>

\* socket.on('room:leave')
RoomLeave(s) ==
  /\ s \notin closed
  /\ IF roomLeaveError(s) # ""
       THEN UNCHANGED <<users, rooms, out>>
       ELSE LET rid == CurrentRoom(s)
                room == rooms[rid]
                w == users[s].walletAddress
            IN IF room.host.walletAddress = w /\ room.status = "waiting"
                 THEN \* host branch: the room is announced closed, the store is not touched
                      /\ users' = [users EXCEPT ![s].currentRoomId = NoRoom]
                      /\ rooms' = rooms
                      /\ out' = Out("room:leave", rid, "", {Emit("room:closed", rid, "Host left the room", 0)})
                 ELSE \* roomService.leaveRoom
                      /\ rooms' = [rooms EXCEPT ![rid].participants = RemoveAt(@, leaveRoomIndex(room, w))]
                      /\ users' = [users EXCEPT ![s].currentRoomId = NoRoom]
                      /\ out' = Out("room:leave", rid, "", {Emit("room:playerLeft", rid, "", 0)})
  /\ UNCHANGED <<closed, nextId, starts, timers, hist, settles>>

\* room:startGame that marks the room 'starting' only after the fetch
StartGameLate(s) ==
  /\ s \notin closed
  /\ IF startGameError(s) # ""
       THEN UNCHANGED <<rooms, starts, out>>
       ELSE LET rid == CurrentRoom(s) IN
            /\ rooms' = rooms
            /\ starts' = starts (+) One(Pending(rid, "fetch"))
            /\ out' = Out("room:startGame", rid, "pending", {Emit("room:gameStarting", rid, "", 0)})
  /\ UNCHANGED <<users, closed, nextId, timers, hist, settles>>

\* socket.on('room:startGame') up to the await on fetchQuestions
StartGame(s) ==
  /\ s \notin closed
  /\ IF startGameError(s) # ""
       THEN UNCHANGED <<rooms, starts, out>>
       ELSE LET rid == CurrentRoom(s) IN
            /\ rooms' = [rooms EXCEPT ![rid].status = "starting"]
            /\ starts' = starts (+) One(Pending(rid, "fetch"))
            /\ out' = Out("room:startGame", rid, "pending", {Emit("room:gameStarting", rid, "", 0)})
  /\ UNCHANGED <<users, closed, nextId, timers, hist, settles>>

\* room:startGame from 'in-progress' to the end of the try block
FinishStart(p, rms, session) ==
  /\ rooms' = [rms EXCEPT ![p.room].yellowSession = session, ![p.room].status = "in-progress"]
  /\ starts' = starts (-) One(p)
  /\ timers' = timers (+) One(Timer("first", p.room, 0))
  /\ hist' = [hist EXCEPT ![p.room].chains = @ + 1,
                          ![p.room].inits = @ + (IF p.phase = "fetch" THEN 1 ELSE 0)]
  /\ out' = Out("room:startGame", p.room, "",
                {Emit("room:statusUpdate", p.room, "", 0), Emit("game:ready", p.room, "", 0)})

\* room:startGame resumed: fetchQuestions returned these questions
FetchOk(p, questions, yellowConnected) ==
  /\ BagIn(p, starts) /\ p.phase = "fetch"
  /\ questions # <<>>
  /\ LET withGame == [rooms EXCEPT ![p.room].gameData = NewGameData(rooms[p.room], questions)] IN
     IF yellowConnected
       THEN \* suspended again, on createAppSession / collectEntryFee
            /\ rooms' = withGame
            /\ starts' = (starts (-) One(p)) (+) One(Pending(p.room, "yellow"))
            /\ hist' = [hist EXCEPT ![p.room].inits = @ + 1]
            /\ out' = Out("room:startGame", p.room, "pending", {})
            /\ UNCHANGED timers
       ELSE FinishStart(p, withGame, NullSession)
  /\ UNCHANGED <<users, closed, nextId, settles>>

\* the catch block without the revert to 'waiting'
FetchFailNoRevert(p, how) ==
  /\ BagIn(p, starts) /\ p.phase = "fetch"
  /\ rooms' = rooms
  /\ starts' = starts (-) One(p)
  /\ hist' = hist
  /\ out' = Out("room:startGame", p.room, how, {Emit("game:error", p.room, how, 0)})
  /\ UNCHANGED <<users, closed, nextId, timers, settles>>

\* the catch block that sets every room that is 'starting' back to 'waiting'
FetchFailRevertsAll(p, how) ==
  /\ BagIn(p, starts) /\ p.phase = "fetch"
  /\ rooms' = [r \in DOMAIN rooms |->
                 IF rooms[r].status = "starting" THEN [rooms[r] EXCEPT !.status = "waiting"] ELSE rooms[r]]
  /\ starts' = starts (-) One(p)
  /\ hist' = hist
  /\ out' = Out("room:startGame", p.room, how, {Emit("game:error", p.room, how, 0)})
  /\ UNCHANGED <<users, closed, nextId, timers, settles>>

\* the catch block that asks for the questions once more
FetchFailRetries(p, how) ==
  /\ BagIn(p, starts) /\ p.phase = "fetch"
  /\ rooms' = rooms
  /\ starts' = starts
  /\ hist' = hist
  /\ out' = Out("room:startGame", p.room, how, {Emit("game:error", p.room, how, 0)})
  /\ UNCHANGED <<users, closed, nextId, timers, settles>>

\* room:startGame resumed: fetchQuestions threw, or returned no question
FetchFail(p, how) ==
  /\ BagIn(p, starts) /\ p.phase = "fetch"
  /\ rooms' = [rooms EXCEPT ![p.room].status = "waiting"]
  /\ starts' = starts (-) One(p)
  /\ hist' = hist
  /\ out' = Out("room:startGame", p.room, how, {Emit("game:error", p.room, how, 0)})
  /\ UNCHANGED <<users, closed, nextId, timers, settles>>

\* room:startGame resumed: the Yellow session was created, or creating it threw
YellowDone(p, created) ==
  /\ BagIn(p, starts) /\ p.phase = "yellow"
  /\ IF created /\ rooms[p.room].config.entryFee > 0
       THEN \* suspended again, on Promise.allSettled of the collectEntryFee calls
            /\ rooms' = [rooms EXCEPT ![p.room].yellowSession = [sessionId |-> p.room]]
            /\ starts' = (starts (-) One(p)) (+) One(Pending(p.room, "fees"))
            /\ out' = Out("room:startGame", p.room, "pending", {})
            /\ UNCHANGED <<timers, hist>>
       ELSE FinishStart(p, rooms, IF created THEN [sessionId |-> p.room] ELSE NullSession)
  /\ UNCHANGED <<users, closed, nextId, settles>>

\* room:startGame resumed: every collectEntryFee call has settled; collected
\* tells whether all of them answered true
FeesDone(p, collected) ==
  /\ BagIn(p, starts) /\ p.phase = "fees"
  /\ collected \in BOOLEAN
  /\ FinishStart(p, rooms, rooms[p.room].yellowSession)
  /\ UNCHANGED <<users, closed, nextId, settles>>

\* socket.on('game:submitAnswer')
SubmitAnswer(s, questionNumber, answer, timeRemaining) ==
  /\ s \notin closed
  /\ IF submitAnswerError(s, questionNumber) # ""
       THEN UNCHANGED <<rooms, out>>
       ELSE LET rid == CurrentRoom(s)
                gd == rooms[rid].gameData
            IN /\ StoredTotal < MaxAnswers
               /\ rooms' = [rooms EXCEPT ![rid].gameData =
                              StoreAnswer(gd, users[s].walletAddress, questionNumber - 1, answer, timeRemaining)]
               /\ out' = Out("game:submitAnswer", rid, "",
                             {Emit("game:scoreUpdate", rid, users[s].walletAddress, questionNumber)})
  /\ UNCHANGED <<users, closed, nextId, starts, timers, hist, settles>>

\* the first timer armed with setInterval: it stays armed after it has fired
FirstTimerStaysArmed(t) ==
  /\ BagIn(t, timers) /\ t.kind = "first"
  /\ \E r \in {sendNextQuestion(rooms, t.room)} :
     /\ rooms' = r.rooms
     /\ timers' = timers (+) r.arm
     /\ settles' = settles (+) r.settle
     /\ out' = Out("timer:first", t.room, "", r.emits)
     /\ hist' = Broadcast(hist, r.emits)
  /\ UNCHANGED <<users, closed, nextId, starts>>

\* the 3 s timer of room:startGame fires
FirstTimer(t) ==
  /\ BagIn(t, timers) /\ t.kind = "first"
  /\ \E r \in {sendNextQuestion(rooms, t.room)} :
     /\ rooms' = r.rooms
     /\ timers' = (timers (-) One(t)) (+) r.arm
     /\ settles' = settles (+) r.settle
     /\ out' = Out("timer:first", t.room, "", r.emits)
     /\ hist' = Broadcast(hist, r.emits)
  /\ UNCHANGED <<users, closed, nextId, starts>>

\* the deadline callback that sends again without moving the index on
DeadlineTimerNoIncrement(t) ==
  /\ BagIn(t, timers) /\ t.kind = "deadline"
  /\ IF t.room \in DOMAIN rooms /\ rooms[t.room].gameData.currentQuestionIndex = t.idx
       THEN LET r == sendNextQuestion(rooms, t.room)
            IN /\ rooms' = r.rooms
               /\ timers' = (timers (-) One(t)) (+) r.arm
               /\ settles' = settles (+) r.settle
               /\ out' = Out("timer:deadline", t.room, "", r.emits)
               /\ hist' = Broadcast(hist, r.emits)
       ELSE /\ timers' = timers (-) One(t)
            /\ UNCHANGED <<rooms, settles, out, hist>>
  /\ UNCHANGED <<users, closed, nextId, starts>>

\* the deadline timer of sendNextQuestion fires
DeadlineTimer(t) ==
  /\ BagIn(t, timers) /\ t.kind = "deadline"
  /\ IF t.room \in DOMAIN rooms /\ rooms[t.room].gameData.currentQuestionIndex = t.idx
       THEN \E r \in {sendNextQuestion(
                       [rooms EXCEPT ![t.room].gameData.currentQuestionIndex = @ + 1], t.room)} :
               /\ rooms' = r.rooms
               /\ timers' = (timers (-) One(t)) (+) r.arm
               /\ settles' = settles (+) r.settle
               /\ out' = Out("timer:deadline", t.room, "", r.emits)
               /\ hist' = Broadcast(hist, r.emits)
       ELSE /\ timers' = timers (-) One(t)
            /\ UNCHANGED <<rooms, settles, out, hist>>
  /\ UNCHANGED <<users, closed, nextId, starts>>

\* the 30 s timer of endGame fires
CleanupTimer(t) ==
  /\ BagIn(t, timers) /\ t.kind = "cleanup"
  /\ rooms' = Drop(rooms, t.room)
  /\ timers' = timers (-) One(t)
  /\ out' = Out("timer:cleanup", t.room, "", {})
  /\ UNCHANGED <<users, closed, nextId, starts, hist, settles>>

\* the .then/.catch chain of endGame runs: the settlement close returned
SettleDone(p, outcome) ==
  /\ BagIn(p, settles)
  /\ settles' = settles (-) One(p)
  /\ out' = Out("settle", p.room, "",
               IF outcome = "Session close failed" THEN {}
               ELSE {Emit("game:prizeDistributed", p.room,
                          IF outcome = "distributed" THEN "" ELSE outcome, p.amount)})
  /\ UNCHANGED <<users, closed, rooms, nextId, starts, timers, hist>>

\* socket.on('disconnect')
Disconnect(s) ==
  /\ s \notin closed
  /\ closed' = closed \cup {s}
  /\ users' = Drop(users, s)
  /\ IF s \in DOMAIN users /\ users[s].currentRoomId # NoRoom
       THEN LET r == FirstBoundRoom(s) IN
            /\ rooms' = removeUserBySocket(s)
            /\ out' = Out("disconnect", r, "",
                 IF r = NoRoom THEN {}
                 ELSE IF roomDeleted(s) THEN {Emit("room:closed", r, "Host disconnected", 0)}
                 ELSE {Emit("room:playerLeft", r, "", 0)})
       ELSE /\ rooms' = rooms
            /\ out' = Out("disconnect", NoRoom, "", {})
  /\ UNCHANGED <<nextId, starts, timers, hist, settles>>

Next ==
  \/ \E s \in Sockets : \E w \in WalletsOf[s] : UserConnect(s, w)
  \/ \E s \in Sockets, mp \in MaxPlayersInputs, fee \in EntryFeeInputs :
       \E draws \in Draws(Codes) : RoomCreate(s, DefaultConfig(mp, fee), draws)
  \/ \E s \in Sockets, code \in JoinCodes : RoomJoin(s, code, NoPassword)
  \/ \E s \in Sockets : RoomLeave(s)
  \/ \E s \in Sockets : StartGame(s)
  \/ \E p \in BagToSet(starts), qs \in QuestionLists, yc \in BOOLEAN : FetchOk(p, qs, yc)
  \/ \E p \in BagToSet(starts), how \in FetchErrors : FetchFail(p, how)
  \/ \E p \in BagToSet(starts), created \in BOOLEAN : YellowDone(p, created)
  \/ \E s \in Sockets, qn \in 0..(MaxLen + 1), a \in AnswerInputs, tr \in TimeRemainingInputs :
       SubmitAnswer(s, qn, a, tr)
  \/ \E t \in BagToSet(timers) : FirstTimer(t)
  \/ \E t \in BagToSet(timers) : DeadlineTimer(t)
  \/ \E t \in BagToSet(timers) : CleanupTimer(t)
  \/ \E p \in BagToSet(settles), outcome \in SettleOutcomes : SettleDone(p, outcome)
  \/ \E s \in Sockets : Disconnect(s)

Spec == Init /\ [][Next]_vars

\* the event loop runs every armed setTimeout callback once its delay is over
TimersFire ==
  /\ WF_vars(\E t \in BagToSet(timers) : FirstTimer(t))
  /\ WF_vars(\E t \in BagToSet(timers) : DeadlineTimer(t))
  /\ WF_vars(\E t \in BagToSet(timers) : CleanupTimer(t))

LiveSpec == Init /\ [][Next]_vars /\ TimersFire

\* ------------------------------------------------------------------ claims

\* C1: after every successful join a room holds at most maxPlayers - 1
\* participants, and a join against a waiting room that already holds
\* maxPlayers players (host included) is refused with 'Room is full'.
C1_JoinCapacity ==
  \A r \in DOMAIN rooms :
    /\ Len(rooms[r].participants) <= rooms[r].config.maxPlayers - 1
    /\ (rooms[r].status = "waiting" /\ Len(rooms[r].participants) + 1 >= rooms[r].config.maxPlayers)
         => \A s \in DOMAIN users : joinRoomError(rooms[r].code, users[s].walletAddress, NoPassword) = "Room is full"

\* C2: at most one answer per (player, question): a submission for a pair
\* that has a stored answer is answered 'Already answered this question';
\* a stored answer is never overwritten or removed, and a player's score
\* changes only in a step that stores a new answer of that player.
C2_SingleAnswer ==
  /\ [](\A s \in DOMAIN users : \A qn \in 1..MaxLen :
          LET r == users[s].currentRoomId
              w == users[s].walletAddress
          IN (/\ r \in DOMAIN rooms
              /\ rooms[r].gameData # NullGame
              /\ w \in DOMAIN rooms[r].gameData.playerAnswers
              /\ (qn - 1) \in DOMAIN rooms[r].gameData.playerAnswers[w])
             => submitAnswerError(s, qn) = "Already answered this question")
  /\ [][\A r \in DOMAIN rooms \cap DOMAIN rooms' :
          rooms[r].gameData # NullGame =>
            /\ rooms'[r].gameData # NullGame
            /\ \A w \in DOMAIN rooms[r].gameData.playerAnswers :
                 /\ w \in DOMAIN rooms'[r].gameData.playerAnswers
                 /\ \A qi \in DOMAIN rooms[r].gameData.playerAnswers[w] :
                      /\ qi \in DOMAIN rooms'[r].gameData.playerAnswers[w]
                      /\ rooms'[r].gameData.playerAnswers[w][qi] = rooms[r].gameData.playerAnswers[w][qi]
                 /\ (DOMAIN rooms'[r].gameData.playerAnswers[w] = DOMAIN rooms[r].gameData.playerAnswers[w])
                      => rooms'[r].gameData.playerScores[w] = rooms[r].gameData.playerScores[w]
       ]_vars

\* a player holds a stored answer and is still in the room to submit again
C2_Witness ==
  /\ out.op = "game:submitAnswer"
  /\ \E s \in DOMAIN users : \E qn \in 1..MaxLen :
       /\ users[s].currentRoomId \in DOMAIN rooms
       /\ rooms[users[s].currentRoomId].gameData # NullGame
       /\ users[s].walletAddress \in DOMAIN rooms[users[s].currentRoomId].gameData.playerAnswers
       /\ (qn - 1) \in DOMAIN rooms[users[s].currentRoomId].gameData.playerAnswers[users[s].walletAddress]
       /\ rooms[users[s].currentRoomId].gameData.playerScores[users[s].walletAddress] > 0

\* C3: a room's status only ever steps waiting->starting,
\* starting->in-progress, in-progress->completed or starting->waiting.
C3_StatusSteps ==
  [][\A r \in DOMAIN rooms \cap DOMAIN rooms' :
       \/ rooms'[r].status = rooms[r].status
       \/ <<rooms[r].status, rooms'[r].status>> \in
            { <<"waiting", "starting">>, <<"starting", "in-progress">>,
              <<"in-progress", "completed">>, <<"starting", "waiting">> }
    ]_vars

\* a match has run to its end
C3_Witness ==
  \E r \in DOMAIN rooms : rooms[r].status = "completed" /\ out.op = "timer:deadline"

\* C4: room:startGame passes its checks exactly when the caller's address
\* is the host of the caller's room, the room has at least 1 participant
\* and is 'waiting'; a room is marked 'starting' only by such a call, a
\* refused call changes no room, and success is reported only for a call
\* that passed.
C4_StartPreconditions ==
  /\ [](\A s \in Sockets \ closed :
          (startGameError(s) = "") <=>
            (/\ s \in DOMAIN users
             /\ users[s].currentRoomId \in DOMAIN rooms
             /\ rooms[users[s].currentRoomId].host.walletAddress = users[s].walletAddress
             /\ Len(rooms[users[s].currentRoomId].participants) >= 1
             /\ rooms[users[s].currentRoomId].status = "waiting"))
  /\ [][/\ \A r \in DOMAIN rooms \cap DOMAIN rooms' :
            /\ (rooms[r].status = "waiting" /\ rooms'[r].status = "starting") =>
                 \E s \in DOMAIN users :
                   /\ users[s].currentRoomId = r
                   /\ users[s].walletAddress = rooms[r].host.walletAddress
                   /\ Len(rooms[r].participants) >= 1
            /\ (rooms[r].status # "in-progress" /\ rooms'[r].status = "in-progress") =>
                 /\ rooms[r].status = "starting"
                 /\ out'.op = "room:startGame" /\ out'.room = r /\ out'.error = ""
        /\ \A s \in Sockets : (startGameError(s) # "" /\ StartGame(s)) => UNCHANGED rooms
       ]_vars

\* a start with exactly one participant (maxPlayers 2, entry fee 0) succeeded
C4_Witness ==
  /\ out.op = "room:startGame" /\ out.error = ""
  /\ out.room \in DOMAIN rooms
  /\ rooms[out.room].status = "in-progress"
  /\ Len(rooms[out.room].participants) = 1
  /\ rooms[out.room].config.maxPlayers = 2
  /\ rooms[out.room].config.entryFee = 0

\* C5: per room at most one room:startGame is suspended at any time, a
\* start call arriving meanwhile is refused, gameData is initialised at
\* most once and at most one question-timer chain is started.
C5_SingleStart ==
  \A r \in RoomIds :
    /\ CopiesIn(Pending(r, "fetch"), starts) + CopiesIn(Pending(r, "yellow"), starts) <= 1
    /\ hist[r].inits <= 1
    /\ hist[r].chains <= 1
    /\ CopiesIn(Timer("first", r, 0), timers) <= 1
    /\ BagIn(Pending(r, "fetch"), starts) =>
         /\ r \in DOMAIN rooms
         /\ rooms[r].status = "starting"
         /\ rooms[r].gameData = NullGame
         /\ \A s \in Sockets \ closed : CurrentRoom(s) = r => startGameError(s) # ""

\* the host asks again while the first call waits for the questions
C5_Witness ==
  \E r \in RoomIds : \E s \in Sockets \ closed :
    /\ BagIn(Pending(r, "fetch"), starts)
    /\ CurrentRoom(s) = r
    /\ startGameError(s) = "Game already started"

\* C6: when the question fetch fails the call ends with the room 'waiting',
\* gameData null, no settlement session, no timer armed and nothing
\* suspended, and the failure is reported to the caller.
C6_FailedStart ==
  (out.op = "room:startGame" /\ out.error \in FetchErrors) =>
    /\ out.room \in DOMAIN rooms
    /\ rooms[out.room].status = "waiting"
    /\ rooms[out.room].gameData = NullGame
    /\ rooms[out.room].yellowSession = NullSession
    /\ \A t \in BagToSet(timers) : t.room # out.room
    /\ \A p \in BagToSet(starts) : p.room # out.room
    /\ Emit("game:error", out.room, out.error, 0) \in out.emits

\* a start has just failed and the host's next start call passes its checks
C6_Witness ==
  /\ out.op = "room:startGame" /\ out.error \in FetchErrors
  /\ \E s \in Sockets \ closed : CurrentRoom(s) = out.room /\ startGameError(s) = ""

\* C7: the participants of a room are added or removed only while the room
\* is 'waiting'.
C7_MembersOnlyWhileWaiting ==
  [][\A r \in DOMAIN rooms \cap DOMAIN rooms' :
       ([i \in 1..Len(rooms'[r].participants) |-> rooms'[r].participants[i].walletAddress]
          # [i \in 1..Len(rooms[r].participants) |-> rooms[r].participants[i].walletAddress])
       => rooms[r].status = "waiting"
    ]_vars

\* C8: when gameData is populated the keys of playerScores and playerAnswers
\* are the host plus the participants of that moment, and they stay the
\* same for as long as the room is in the store.
C8_FrozenMembership ==
  [][\A r \in DOMAIN rooms \cap DOMAIN rooms' :
       /\ (rooms[r].gameData = NullGame /\ rooms'[r].gameData # NullGame) =>
            /\ DOMAIN rooms'[r].gameData.playerScores
                 = {rooms[r].host.walletAddress} \cup ParticipantWallets(rooms[r])
            /\ DOMAIN rooms'[r].gameData.playerAnswers
                 = {rooms[r].host.walletAddress} \cup ParticipantWallets(rooms[r])
       /\ rooms[r].gameData # NullGame =>
            /\ rooms'[r].gameData # NullGame
            /\ DOMAIN rooms'[r].gameData.playerScores = DOMAIN rooms[r].gameData.playerScores
            /\ DOMAIN rooms'[r].gameData.playerAnswers = DOMAIN rooms[r].gameData.playerAnswers
    ]_vars

\* a match with a stored answer whose scoring membership outlived a
\* participant who left
C8_Witness ==
  \E r \in DOMAIN rooms :
    /\ rooms[r].gameData # NullGame
    /\ StoredCount(rooms[r].gameData) > 0
    /\ DOMAIN rooms[r].gameData.playerScores
         # {rooms[r].host.walletAddress} \cup ParticipantWallets(rooms[r])

\* C9: when a connection disconnects, every 'waiting' room whose host is
\* bound to it is gone from the store afterwards and room:closed with
\* reason 'Host disconnected' is broadcast to it.
C9_HostDisconnectCloses ==
  [][\A s \in Sockets : (s \notin closed /\ s \in closed') =>
       \A r \in DOMAIN rooms :
         (rooms[r].host.socketId = s /\ rooms[r].status = "waiting") =>
           /\ r \notin DOMAIN rooms'
           /\ Emit("room:closed", r, "Host disconnected", 0) \in out'.emits
    ]_vars

\* C10: a disconnect of the host or of a participant of an 'in-progress'
\* room keeps the room, and changes nothing in it but the connection id of
\* the disconnecting player, which becomes null.
C10_DisconnectMidGame ==
  [][\A s \in Sockets : (s \notin closed /\ s \in closed') =>
       \A r \in DOMAIN rooms :
         (rooms[r].status = "in-progress" /\ BoundTo(rooms[r], s)) =>
           /\ r \in DOMAIN rooms'
           /\ rooms'[r] =
                [rooms[r] EXCEPT
                   !.host.socketId = IF @ = s THEN NoSocket ELSE @,
                   !.participants = [i \in 1..Len(@) |->
                      IF @[i].socketId = s THEN [@[i] EXCEPT !.socketId = NoSocket] ELSE @[i]]]
    ]_vars

\* C11: when a connection that is bound to a participant (not the host) of
\* a 'waiting' room disconnects, the room stays in the store, exactly the
\* participant entries of that connection are gone, the host and the other
\* participants are unchanged, and room:playerLeft is broadcast to the room.
C11_ParticipantDisconnectWaiting ==
  [][\A s \in Sockets : (s \notin closed /\ s \in closed') =>
       \A r \in DOMAIN rooms :
         (/\ rooms[r].status = "waiting"
          /\ rooms[r].host.socketId # s
          /\ \E i \in 1..Len(rooms[r].participants) : rooms[r].participants[i].socketId = s) =>
           /\ r \in DOMAIN rooms'
           /\ rooms'[r] = [rooms[r] EXCEPT !.participants = SelectSeq(@, LAMBDA p : p.socketId # s)]
           /\ Emit("room:playerLeft", r, "", 0) \in out'.emits
    ]_vars

\* C12: game:submitAnswer changes neither currentQuestionIndex nor the
\* status of any room, accepted or refused, also when every player has
\* answered the current question; currentQuestionIndex of a running game
\* changes only in a step of a question-deadline timer callback.
C12_SubmitNeverAdvances ==
  [][/\ (\E s \in Sockets, qn \in 0..(MaxLen + 1), a \in AnswerInputs, tr \in TimeRemainingInputs :
           SubmitAnswer(s, qn, a, tr)) =>
          \A r \in DOMAIN rooms :
            /\ r \in DOMAIN rooms'
            /\ rooms'[r].status = rooms[r].status
            /\ rooms[r].gameData # NullGame =>
                 rooms'[r].gameData.currentQuestionIndex = rooms[r].gameData.currentQuestionIndex
     /\ \A r \in DOMAIN rooms \cap DOMAIN rooms' :
          (/\ rooms[r].gameData # NullGame
           /\ rooms'[r].gameData # NullGame
           /\ rooms'[r].gameData.currentQuestionIndex # rooms[r].gameData.currentQuestionIndex) =>
            \E t \in BagToSet(timers) : t.room = r /\ DeadlineTimer(t)
    ]_vars

\* a submission was just accepted, each of the two or more players of the
\* match now holds an answer to the current question, and the match is
\* still on that question
C12_Witness ==
  /\ out.op = "game:submitAnswer"
  /\ out.room \in DOMAIN rooms
  /\ rooms[out.room].status = "in-progress"
  /\ LET gd == rooms[out.room].gameData IN
     /\ \E e \in out.emits : e.event = "game:scoreUpdate" /\ e.n = gd.currentQuestionIndex + 1
     /\ Cardinality(DOMAIN gd.playerScores) >= 2
     /\ \A w \in DOMAIN gd.playerScores : gd.currentQuestionIndex \in DOMAIN gd.playerAnswers[w]

\* C13: the question numbers broadcast to a room are 1, 2, ... in this
\* order, none skipped or repeated, never more than the game has questions
\* and all n of them once the game is completed; currentQuestionIndex only
\* changes by +1, in the firing of a deadline timer of its room, and every
\* such firing against a live room moves it by exactly 1; at most one
\* deadline timer per room is armed at any time.
C13_QuestionsInOrder ==
  /\ [](\A r \in RoomIds :
          /\ hist[r].asked = [i \in 1..Len(hist[r].asked) |-> i]
          /\ (r \in DOMAIN rooms /\ rooms[r].gameData # NullGame) =>
               /\ Len(hist[r].asked) <= Len(rooms[r].gameData.questions)
               /\ rooms[r].status = "completed" =>
                    Len(hist[r].asked) = Len(rooms[r].gameData.questions)
          /\ Cardinality({t \in BagToSet(timers) : t.kind = "deadline" /\ t.room = r}) <= 1
          /\ \A t \in BagToSet(timers) : (t.kind = "deadline" /\ t.room = r) => CopiesIn(t, timers) = 1)
  /\ [][/\ \A r \in DOMAIN rooms \cap DOMAIN rooms' :
            (/\ rooms[r].gameData # NullGame
             /\ rooms'[r].gameData # NullGame
             /\ rooms'[r].gameData.currentQuestionIndex # rooms[r].gameData.currentQuestionIndex) =>
              rooms'[r].gameData.currentQuestionIndex = rooms[r].gameData.currentQuestionIndex + 1
        /\ \A t \in BagToSet(timers) :
            (t.kind = "deadline" /\ t.room \in DOMAIN rooms /\ DeadlineTimer(t)) =>
              /\ t.room \in DOMAIN rooms'
              /\ rooms'[t.room].gameData.currentQuestionIndex = rooms[t.room].gameData.currentQuestionIndex + 1
       ]_vars

\* a game of two questions has been completed and both were broadcast
C13_Witness ==
  \E r \in DOMAIN rooms :
    /\ rooms[r].status = "completed"
    /\ Len(rooms[r].gameData.questions) = 2
    /\ hist[r].asked = <<1, 2>>
    /\ out.op = "timer:deadline"

\* ------------------------------------------- timer callbacks, room deleted
\* The store after room 1 was deleted, with callbacks of that room still
\* armed: the callbacks are applied to a store that lacks their room.
AllTimers ==
  {Timer("first", r, 0) : r \in RoomIds} \cup {Timer("cleanup", r, 0) : r \in RoomIds}
    \cup {Timer("deadline", r, i) : r \in RoomIds, i \in 0..(MaxLen - 1)}

OrphanTimerInit ==
  /\ rooms = <<>>
  /\ nextId = 2
  /\ closed \in SUBSET Sockets
  /\ \E live \in SUBSET (Sockets \ closed) :
       users \in [live -> [walletAddress : {"w1", "w2", "w3"}, currentRoomId : {NoRoom} \cup RoomIds]]
  /\ \A s \in DOMAIN users : users[s].walletAddress \in WalletsOf[s]
  /\ starts = EmptyBag
  /\ \E armed \in SUBSET AllTimers : armed # {} /\ timers = SetToBag(armed)
  /\ settles = EmptyBag
  /\ hist = [r \in RoomIds |-> [code |-> "A1B2C3", inits |-> 1, chains |-> 1, asked |-> <<>>]]
  /\ out = Out("init", NoRoom, "", {})

OrphanTimerNext ==
  \/ \E t \in BagToSet(timers) : FirstTimer(t)
  \/ \E t \in BagToSet(timers) : DeadlineTimer(t)
  \/ \E t \in BagToSet(timers) : CleanupTimer(t)

OrphanTimerSpec == OrphanTimerInit /\ [][OrphanTimerNext]_vars

\* C14: a timer callback (first-question, question-deadline, cleanup) that
\* fires while its room is not in the store changes neither the room store
\* nor the users, arms no timer, resumes nothing, sends no notification and
\* reports no error.
C14_OrphanTimerNoOp ==
  [][\A t \in BagToSet(timers) :
       (t.room \notin DOMAIN rooms /\ (FirstTimer(t) \/ DeadlineTimer(t) \/ CleanupTimer(t))) =>
         /\ rooms' = rooms
         /\ users' = users
         /\ starts' = starts
         /\ settles' = settles
         /\ timers' = timers (-) One(t)
         /\ out' = out \/ (out'.emits = {} /\ out'.error = "")
    ]_vars

\* every armed callback has fired against the store without its room
C14_Witness ==
  /\ timers = EmptyBag
  /\ out.op \in {"timer:first", "timer:cleanup"}
  /\ out.room \notin DOMAIN rooms

\* no state of the running server has a callback armed for a deleted room
TimersHaveRooms == \A t \in BagToSet(timers) : t.room \in DOMAIN rooms

\* C15: if every armed timer eventually fires, a room that is 'in-progress'
\* eventually is 'completed', with game:ended broadcast in the step that
\* completes it, and a 'completed' room eventually is gone from the store,
\* whatever submissions, leaves and disconnects happen in between.
C15_GamesEndAndAreRemoved ==
  \A r \in RoomIds :
    /\ (r \in DOMAIN rooms /\ rooms[r].status = "in-progress")
         ~> (/\ r \in DOMAIN rooms
             /\ rooms[r].status = "completed"
             /\ Emit("game:ended", r, "", 0) \in out.emits)
    /\ (r \in DOMAIN rooms /\ rooms[r].status = "completed") ~> (r \notin DOMAIN rooms)

\* a match ran through its questions, ended, and its room was cleaned up,
\* after its participant had left and its host had disconnected
C15_Witness ==
  \E r \in RoomIds :
    /\ r \notin DOMAIN rooms
    /\ out = Out("timer:cleanup", r, "", {})
    /\ hist[r].asked # <<>>
    /\ closed # {}

\* ------------------------------------------------- scoring of submissions
\* A running match of host w1 and participant w2 on its first question,
\* with every list of questions formatQuestion can produce, and submissions
\* with every answer index and remaining time of the input sets below.
ScoringAnswers == {-1, 0, 1, 2}
ScoringTimes == {-3, 0, 5, 20}
ScoringQuestionLists == UNION {[1..n -> {formatQuestion(raw) : raw \in RawQuestions}] : n \in 1..MaxLen}

ScoringInit ==
  /\ users = [s \in Sockets |-> [walletAddress |-> IF s = "s1" THEN "w1" ELSE "w2", currentRoomId |-> 1]]
  /\ closed = {}
  /\ \E questions \in ScoringQuestionLists :
       LET created == updateParticipantSocket(NewRoom("w1", DefaultConfig(2, 0), "A1B2C3"), "w1", "s1")
           joined == [created EXCEPT !.participants = <<[walletAddress |-> "w2", socketId |-> "s2"]>>]
       IN rooms = Put(<<>>, 1, [joined EXCEPT !.status = "in-progress",
                                               !.gameData = NewGameData(joined, questions)])
  /\ nextId = 2
  /\ starts = EmptyBag
  /\ timers = One(Timer("deadline", 1, 0))
  /\ settles = EmptyBag
  /\ hist = [r \in RoomIds |-> [code |-> "A1B2C3", inits |-> 1, chains |-> 1, asked |-> <<1>>]]
  /\ out = Out("timer:first", 1, "", {Emit("game:question", 1, "", 1)})

ScoringNext ==
  \E s \in Sockets, qn \in 0..(MaxLen + 1), a \in ScoringAnswers, tr \in ScoringTimes :
    SubmitAnswer(s, qn, a, tr)

ScoringSpec == ScoringInit /\ [][ScoringNext]_vars

\* C16: the score stored for an accepted submission is points + max(0,
\* timeRemaining) when the submitted option is the question's correct option
\* and 0 otherwise: points alone for a correct answer with timeRemaining <= 0,
\* and with points = 10, 30 at timeRemaining 20 and 15 at timeRemaining 5;
\* the submitter's total grows by exactly that score.
C16_AwardedScore ==
  /\ [](\A r \in DOMAIN rooms : rooms[r].gameData # NullGame =>
          \A w \in DOMAIN rooms[r].gameData.playerAnswers :
            \A qi \in DOMAIN rooms[r].gameData.playerAnswers[w] :
              LET a == rooms[r].gameData.playerAnswers[w][qi]
                  q == rooms[r].gameData.questions[qi + 1]
              IN /\ a.answer # q.correctAnswer => a.score = 0
                 /\ (a.answer = q.correctAnswer /\ a.timeRemaining > 0) =>
                      a.score = q.points + a.timeRemaining
                 /\ (a.answer = q.correctAnswer /\ a.timeRemaining <= 0) => a.score = q.points
                 /\ (a.answer = q.correctAnswer /\ q.points = 10 /\ a.timeRemaining = 20) => a.score = 30
                 /\ (a.answer = q.correctAnswer /\ q.points = 10 /\ a.timeRemaining = 5) => a.score = 15)
  /\ [][\A r \in DOMAIN rooms \cap DOMAIN rooms' :
          (rooms[r].gameData # NullGame /\ rooms'[r].gameData # NullGame) =>
            \A w \in DOMAIN rooms'[r].gameData.playerAnswers :
              \A qi \in DOMAIN rooms'[r].gameData.playerAnswers[w] :
                (w \notin DOMAIN rooms[r].gameData.playerAnswers
                   \/ qi \notin DOMAIN rooms[r].gameData.playerAnswers[w]) =>
                  rooms'[r].gameData.playerScores[w] =
                    (IF w \in DOMAIN rooms[r].gameData.playerScores
                       THEN rooms[r].gameData.playerScores[w] ELSE 0)
                    + rooms'[r].gameData.playerAnswers[w][qi].score
       ]_vars

\* the two players answered question 1 correctly with 20 s and 5 s left and
\* hold 30 and 15 points
C16_Witness ==
  \E r \in DOMAIN rooms : \E w, v \in DOMAIN rooms[r].gameData.playerAnswers :
    LET gd == rooms[r].gameData IN
    /\ 0 \in DOMAIN gd.playerAnswers[w] /\ 0 \in DOMAIN gd.playerAnswers[v]
    /\ gd.playerAnswers[w][0].isCorrect /\ gd.playerAnswers[w][0].timeRemaining = 20
    /\ gd.playerAnswers[v][0].isCorrect /\ gd.playerAnswers[v][0].timeRemaining = 5
    /\ gd.playerScores[w] = 30 /\ gd.playerScores[v] = 15

\* C17: every question the question source hands over has a correct option
\* index >= 0, so a stored answer with index -1 is never marked correct and
\* has score 0.
C17_TimeoutAnswerNeverCorrect ==
  \A r \in DOMAIN rooms : rooms[r].gameData # NullGame =>
    /\ \A i \in 1..Len(rooms[r].gameData.questions) : rooms[r].gameData.questions[i].correctAnswer >= 0
    /\ \A w \in DOMAIN rooms[r].gameData.playerAnswers :
         \A qi \in DOMAIN rooms[r].gameData.playerAnswers[w] :
           rooms[r].gameData.playerAnswers[w][qi].answer = -1 =>
             /\ rooms[r].gameData.playerAnswers[w][qi].isCorrect = FALSE
             /\ rooms[r].gameData.playerAnswers[w][qi].score = 0

\* an answer -1 with time left is stored for a question whose correct
\* option index is 0, and the player's total is 0
C17_Witness ==
  \E r \in DOMAIN rooms : \E w \in DOMAIN rooms[r].gameData.playerAnswers :
    \E qi \in DOMAIN rooms[r].gameData.playerAnswers[w] :
      /\ rooms[r].gameData.playerAnswers[w][qi].answer = -1
      /\ rooms[r].gameData.playerAnswers[w][qi].timeRemaining = 20
      /\ rooms[r].gameData.questions[qi + 1].correctAnswer = 0
      /\ rooms[r].gameData.playerScores[w] = 0

\* the sum of the 'score' fields of a player's stored answers
AnswerScoreSum(answers) ==
  LET Sum[S \in SUBSET DOMAIN answers] ==
        IF S = {} THEN 0
        ELSE LET qi == CHOOSE x \in S : TRUE IN answers[qi].score + Sum[S \ {qi}]
  IN Sum[DOMAIN answers]

\* C18: in every room with gameData each player's playerScores entry is the
\* sum of the scores of that player's stored answers, every stored score and
\* every total is >= 0, and a step changes the answers or the total of at
\* most one player, who is the submitter of an accepted game:submitAnswer.
C18_ScoresAreOwnSums ==
  /\ [](\A r \in DOMAIN rooms : rooms[r].gameData # NullGame =>
          LET gd == rooms[r].gameData IN
          /\ DOMAIN gd.playerScores = DOMAIN gd.playerAnswers
          /\ \A w \in DOMAIN gd.playerScores :
               /\ gd.playerScores[w] = AnswerScoreSum(gd.playerAnswers[w])
               /\ gd.playerScores[w] >= 0
               /\ \A qi \in DOMAIN gd.playerAnswers[w] : gd.playerAnswers[w][qi].score >= 0)
  /\ [][\A r \in DOMAIN rooms \cap DOMAIN rooms' :
          (rooms[r].gameData # NullGame /\ rooms'[r].gameData # NullGame) =>
            \A w \in DOMAIN rooms[r].gameData.playerScores :
              (\/ rooms'[r].gameData.playerScores[w] # rooms[r].gameData.playerScores[w]
               \/ rooms'[r].gameData.playerAnswers[w] # rooms[r].gameData.playerAnswers[w]) =>
                /\ \E s \in DOMAIN users :
                     /\ users[s].walletAddress = w /\ users[s].currentRoomId = r
                     /\ \E qn \in 0..(MaxLen + 1), a \in AnswerInputs, tr \in TimeRemainingInputs :
                          SubmitAnswer(s, qn, a, tr)
                /\ \A v \in DOMAIN rooms[r].gameData.playerScores \ {w} :
                     /\ rooms'[r].gameData.playerScores[v] = rooms[r].gameData.playerScores[v]
                     /\ rooms'[r].gameData.playerAnswers[v] = rooms[r].gameData.playerAnswers[v]
       ]_vars

\* a player holds two correct answers and the sum of their scores, next to
\* a player without points
C18_Witness ==
  \E r \in DOMAIN rooms : rooms[r].gameData # NullGame /\
    \E w, v \in DOMAIN rooms[r].gameData.playerScores :
      /\ Cardinality(DOMAIN rooms[r].gameData.playerAnswers[w]) = 2
      /\ rooms[r].gameData.playerScores[w] = 2 * (Points + 5)
      /\ rooms[r].gameData.playerScores[v] = 0

\* C19: the leaderboard of a room with gameData has exactly one entry per
\* address of playerScores, carrying that address's score and the number of
\* its stored answers marked correct, in descending order of score, entries
\* of equal score in the insertion order of playerScores; that order is the
\* host, then the participants in join order, of the moment the game data
\* was built.
C19_Leaderboard ==
  /\ [](\A r \in DOMAIN rooms : rooms[r].gameData # NullGame =>
          LET gd == rooms[r].gameData
              lb == calculateLeaderboard(rooms[r])
              Pos(w) == CHOOSE i \in 1..Len(gd.scoreOrder) : gd.scoreOrder[i] = w
          IN /\ Len(lb) = Cardinality(DOMAIN gd.playerScores)
             /\ {lb[i].walletAddress : i \in 1..Len(lb)} = DOMAIN gd.playerScores
             /\ \A i \in 1..Len(lb) :
                  /\ lb[i].score = gd.playerScores[lb[i].walletAddress]
                  /\ lb[i].correctAnswers =
                       Cardinality({qi \in DOMAIN gd.playerAnswers[lb[i].walletAddress] :
                                      gd.playerAnswers[lb[i].walletAddress][qi].isCorrect})
             /\ \A i, j \in 1..Len(lb) : i < j =>
                  /\ lb[i].score >= lb[j].score
                  /\ lb[i].score = lb[j].score => Pos(lb[i].walletAddress) < Pos(lb[j].walletAddress))
  /\ [][\A r \in DOMAIN rooms \cap DOMAIN rooms' :
          /\ (rooms[r].gameData = NullGame /\ rooms'[r].gameData # NullGame) =>
               rooms'[r].gameData.scoreOrder =
                 <<rooms[r].host.walletAddress>> \o
                   [i \in 1..Len(rooms[r].participants) |-> rooms[r].participants[i].walletAddress]
          /\ rooms[r].gameData # NullGame =>
               rooms'[r].gameData.scoreOrder = rooms[r].gameData.scoreOrder
       ]_vars

\* three players: the one who joined last leads with points, the other two
\* are tied and follow with the host first
C19_Witness ==
  \E r \in DOMAIN rooms : rooms[r].gameData # NullGame /\
    LET lb == calculateLeaderboard(rooms[r]) IN
    /\ Len(lb) = 3
    /\ lb[1].walletAddress = rooms[r].gameData.scoreOrder[3]
    /\ lb[1].score > lb[2].score /\ lb[1].correctAnswers = 1
    /\ lb[2].score = lb[3].score
    /\ lb[2].walletAddress = rooms[r].host.walletAddress

\* ------------------------------------------------ rooms with an entry fee
\* The same server, with rooms that charge an entry fee as well.
PaidEntryFees == {5}

PaidNext ==
  \/ Next
  \/ \E s \in Sockets, mp \in MaxPlayersInputs, fee \in PaidEntryFees, draws \in Draws(Codes) :
       RoomCreate(s, DefaultConfig(mp, fee), draws)
  \/ \E p \in BagToSet(starts), collected \in BOOLEAN : FeesDone(p, collected)

PaidSpec == Init /\ [][PaidNext]_vars

\* C20: when a match that has a settlement session ends, closeAppSession is
\* called with the first entry of the final rankings as winner and with
\* entryFee times the number of players the match was started with (the
\* keys of playerScores) as prize amount.
C20_PrizeIsFeeTimesPlayers ==
  [][\A r \in DOMAIN rooms \cap DOMAIN rooms' :
       (/\ rooms[r].status # "completed"
        /\ rooms'[r].status = "completed"
        /\ rooms'[r].yellowSession # NullSession) =>
         CloseAppSession(r, calculateLeaderboard(rooms'[r])[1].walletAddress,
                         rooms'[r].config.entryFee * Cardinality(DOMAIN rooms'[r].gameData.playerScores))
           \in out'.emits
    ]_vars

\* ------------------------------------------------- settlement at game end
\* the step completes room r
Completes(r) ==
  /\ r \in DOMAIN rooms /\ rooms[r].status # "completed"
  /\ r \in DOMAIN rooms' /\ rooms'[r].status = "completed"

\* C21: the step that makes a room 'completed' broadcasts game:ended and
\* arms the cleanup timer, and sends no game:prizeDistributed; a
\* game:prizeDistributed is sent only by a settlement that returns after its
\* room was completed, and a returning settlement changes neither the room
\* store (rankings, scores) nor the timers; a completed room is eventually
\* deleted even if its settlement never returns.
C21_EndedBeforeSettlement ==
  /\ [][/\ \A r \in RoomIds : Completes(r) =>
             /\ Emit("game:ended", r, "", 0) \in out'.emits
             /\ \A e \in out'.emits : e.event # "game:prizeDistributed"
             /\ BagIn(Timer("cleanup", r, 0), timers')
        /\ \A p \in BagToSet(settles), o \in SettleOutcomes : SettleDone(p, o) =>
             /\ p.room \in DOMAIN rooms => rooms[p.room].status = "completed"
             /\ rooms' = rooms
             /\ timers' = timers
        /\ (\E e \in out'.emits : e.event = "game:prizeDistributed") =>
             (out' = out \/ \E p \in BagToSet(settles), o \in SettleOutcomes : SettleDone(p, o))
      ]_vars
  /\ \A r \in RoomIds :
       (r \in DOMAIN rooms /\ rooms[r].status = "completed" /\ settles # EmptyBag)
         ~> (r \notin DOMAIN rooms)

\* the room of a finished match was deleted while its settlement close has
\* still not returned
C21_Witness ==
  \E p \in BagToSet(settles) :
    /\ p.room \notin DOMAIN rooms
    /\ out = Out("timer:cleanup", p.room, "", {})

LobbyPasswords == {NoPassword, "pw"}
LobbyConfigs ==
  {[DefaultConfig(2, 0) EXCEPT !.password = pw, !.isPublic = pub] : pw \in LobbyPasswords, pub \in BOOLEAN}
LobbyJoinCodes == {"A1B2C3", "a1b2c3", "D4E5F6"}
LobbyJoinPasswords == {NoPassword, "pw", "xy"}
LobbyQuestions == <<Question(0)>>

LobbyNext ==
  \/ \E s \in Sockets : \E w \in WalletsOf[s] : UserConnect(s, w)
  \/ \E s \in Sockets, cfg \in LobbyConfigs, draws \in Draws(Codes) : RoomCreate(s, cfg, draws)
  \/ \E s \in Sockets, code \in LobbyJoinCodes, pw \in LobbyJoinPasswords : RoomJoin(s, code, pw)
  \/ \E s \in Sockets : RoomLeave(s)
  \/ \E s \in Sockets : StartGame(s)
  \/ \E p \in BagToSet(starts) : FetchOk(p, LobbyQuestions, FALSE)
  \/ \E p \in BagToSet(starts) : FetchFail(p, "Failed to fetch questions")
  \/ \E t \in BagToSet(timers) : FirstTimer(t)
  \/ \E t \in BagToSet(timers) : DeadlineTimer(t)
  \/ \E t \in BagToSet(timers) : CleanupTimer(t)
  \/ \E s \in Sockets : Disconnect(s)

LobbySpec == Init /\ [][LobbyNext]_vars

\* the answer C23 expects for a join of wallet w with this code and
\* password: the first failing condition of its list, "" when none fails
\* (a room counts as full when a join finds maxPlayers participants, the
\* threshold C1 is about)
C23_FirstFailure(code, w, password) ==
  LET found == {r \in DOMAIN rooms : rooms[r].code = ToUpperCase(code)} IN
  IF found = {} THEN "Room not found"
  ELSE LET room == rooms[CHOOSE r \in found : TRUE] IN
    CASE room.status # "waiting" -> "Room has already started or ended"
      [] room.status = "waiting" /\ Len(room.participants) >= room.config.maxPlayers -> "Room is full"
      [] OTHER ->
           IF room.config.password # NoPassword /\ password # room.config.password THEN "Incorrect password"
           ELSE IF \E i \in 1..Len(room.participants) : room.participants[i].walletAddress = w
             THEN "You have already joined this room"
           ELSE IF w = room.host.walletAddress THEN "Host cannot join as participant"
           ELSE ""

\* C23: a join is answered with the first failing condition in the order
\* room not found, not 'waiting', full, password mismatch, already a
\* participant, caller is the host; a failed join changes no room and no
\* user, and a join that fails none of them adds the caller as the last
\* participant and changes nothing else of the room.
C23_JoinChecksInOrder ==
  /\ [](\A s \in DOMAIN users, code \in LobbyJoinCodes, pw \in LobbyJoinPasswords :
          joinRoomError(code, users[s].walletAddress, pw) = C23_FirstFailure(code, users[s].walletAddress, pw))
  /\ [][\A s \in DOMAIN users, code \in LobbyJoinCodes, pw \in LobbyJoinPasswords :
          RoomJoin(s, code, pw) =>
            IF C23_FirstFailure(code, users[s].walletAddress, pw) # ""
              THEN rooms' = rooms /\ users' = users
              ELSE \E r \in DOMAIN rooms :
                     /\ rooms[r].code = ToUpperCase(code)
                     /\ Len(rooms'[r].participants) = Len(rooms[r].participants) + 1
                     /\ rooms'[r].participants[Len(rooms'[r].participants)].walletAddress = users[s].walletAddress
                     /\ SubSeq(rooms'[r].participants, 1, Len(rooms[r].participants)) = rooms[r].participants
                     /\ [rooms' EXCEPT ![r].participants = rooms[r].participants] = rooms
       ]_vars

\* a private room was joined with its password, given its code in lower
\* case, and from this state a join with another password is answered
\* 'Incorrect password'
C23_Witness ==
  \E r \in DOMAIN rooms :
    /\ out = Out("room:join", r, "", {Emit("room:playerJoined", r, "", 0)})
    /\ rooms[r].config.password = "pw" /\ ~rooms[r].config.isPublic
    /\ Len(rooms[r].participants) = 1
    /\ \E s \in DOMAIN users :
         /\ joinRoomError("a1b2c3", users[s].walletAddress, "xy") = "Incorrect password"
         /\ joinRoomError("a1b2c3", users[s].walletAddress, "pw") = ""

\* C24: in every room the host address and the participant addresses are
\* pairwise different.
C24_AddressesDistinct ==
  \A r \in DOMAIN rooms :
    LET ps == rooms[r].participants IN
    /\ \A i \in 1..Len(ps) : ps[i].walletAddress # rooms[r].host.walletAddress
    /\ \A i \in 1..Len(ps), j \in 1..Len(ps) : i # j => ps[i].walletAddress # ps[j].walletAddress

\* one connection joined a room, registered again under another address and
\* joined once more: both participants are bound to it, and a further join
\* under either address is refused
C24_Witness ==
  \E r \in DOMAIN rooms :
    LET ps == rooms[r].participants IN
    /\ out.op = "room:join" /\ out.room = r
    /\ Len(ps) = 2
    /\ ps[1].socketId = ps[2].socketId /\ ps[1].socketId # NoSocket
    /\ closed # {}

\* ------------------------------------------------------- creating rooms
\* Two registered connections create rooms with every configuration of the
\* input sets below, while the code generator hands out one of two codes;
\* a host that disconnects takes its waiting room with it.
CreateRoomIds == {1, 2}
CreateCodes == {"A1B2C3", "D4E5F6"}
\* two accepted configurations, and each of them with one entry replaced
CreateBases ==
  { DefaultConfig(2, 0),
    [ entryFee |-> 1000, asset |-> "WBTC", maxPlayers |-> Num(10, 0), topic |-> "All",
      password |-> "pw", isPublic |-> FALSE ] }
CreateConfigs ==
  UNION {
    {[b EXCEPT !.entryFee = v] : v \in {-1, 0, 1000, 1001}}
      \cup {[b EXCEPT !.asset = v] : v \in {"USDC", "WBTC", "ETH"}}
      \cup {[b EXCEPT !.maxPlayers = v] : v \in {Num(1, 1), Num(2, 0), Num(2, 1), Num(10, 0), Num(10, 1)}}
      \cup {[b EXCEPT !.topic = v] : v \in {"Random", "History"}}
      \cup {[b EXCEPT !.password = pw, !.isPublic = pub] : pw \in {NoPassword, "", " ", "pw"}, pub \in BOOLEAN}
    : b \in CreateBases }

CreateInit ==
  /\ users = [s \in Sockets |-> [walletAddress |-> IF s = "s1" THEN "w1" ELSE "w2", currentRoomId |-> NoRoom]]
  /\ closed = {}
  /\ rooms = <<>>
  /\ nextId = 1
  /\ starts = EmptyBag
  /\ timers = EmptyBag
  /\ settles = EmptyBag
  /\ hist = [r \in CreateRoomIds |-> [code |-> "", inits |-> 0, chains |-> 0, asked |-> <<>>]]
  /\ out = Out("init", NoRoom, "", {})

CreateNext ==
  \/ \E s \in Sockets, cfg \in CreateConfigs, draws \in Draws(CreateCodes) : RoomCreate(s, cfg, draws)
  \/ \E s \in Sockets : Disconnect(s)

CreateSpec == CreateInit /\ [][CreateNext]_vars

\* the configurations C25 says are refused
C25_Refused(cfg) ==
  \/ cfg.entryFee < 0 \/ cfg.entryFee > 1000
  \/ cfg.asset \notin {"USDC", "USDT", "DAI", "USDC.e", "WETH", "WBTC"}
  \/ cfg.maxPlayers.whole < 2 \/ cfg.maxPlayers.whole > 10
  \/ (cfg.maxPlayers.whole = 10 /\ cfg.maxPlayers.half # 0)
  \/ cfg.topic \notin {"Random", "All", "Age", "ProfitAndLoss", "SpeedTimeDistance", "MixtureAndAlligation",
                       "PipesAndCisterns", "SimpleInterest", "Calendars", "PermutationAndCombination"}
  \/ (~cfg.isPublic /\ cfg.password \in {NoPassword, "", " "})

C26_CodesUnique ==
  /\ [](\A r \in DOMAIN rooms, q \in DOMAIN rooms : r # q => rooms[r].code # rooms[q].code)
  /\ [](\A draws \in Draws(CreateCodes) :
          LET taken == {rooms[r].code : r \in DOMAIN rooms} IN
          IF \A i \in 1..10 : draws[i] \in taken
            THEN GeneratedCode(draws) = 0
            ELSE /\ GeneratedCode(draws) \in 1..10
                 /\ draws[GeneratedCode(draws)] \notin taken
                 /\ \A j \in 1..(GeneratedCode(draws) - 1) : draws[j] \in taken)
  /\ [][DOMAIN rooms' \ DOMAIN rooms # {} =>
          \E s \in DOMAIN users, cfg \in CreateConfigs, draws \in Draws(CreateCodes) :
            /\ RoomCreate(s, cfg, draws)
            /\ GeneratedCode(draws) # 0
            /\ \A new \in DOMAIN rooms' \ DOMAIN rooms : rooms'[new].code = draws[GeneratedCode(draws)]
       ]_vars

\* a room was created with the code of a room deleted before
C26_Witness ==
  /\ out.op = "room:create"
  /\ \E gone \in DOMAIN hist \ DOMAIN rooms, r \in DOMAIN rooms :
       /\ out.room = r
       /\ gone < r
       /\ hist[gone].code = rooms[r].code

\* the fields of a configuration, or of the config of a view, that C27
\* compares (a whole number n of a view is the number n + 0/2 of a request)
C27_PublicFields(entryFee, asset, maxPlayers, topic, isPublic) ==
  [entryFee |-> entryFee, asset |-> asset, maxPlayers |-> maxPlayers, topic |-> topic, isPublic |-> isPublic]
C27_OfView(view) ==
  C27_PublicFields(view.config.entryFee, view.config.asset, Num(view.config.maxPlayers, 0),
                   view.config.topic, view.config.isPublic)

\* C27: after a room:create with configuration C has added a room, the view
\* createRoom returns, the view room:get returns for its id, and its view
\* in the public list if it is public, have entryFee, asset, maxPlayers,
\* topic and isPublic equal to C's; and the view of a room has no password
\* entry.
C27_ViewShowsConfig ==
  /\ [][DOMAIN rooms' \ DOMAIN rooms # {} =>
          \A s \in DOMAIN users, cfg \in CreateConfigs, draws \in Draws(CreateCodes) :
            RoomCreate(s, cfg, draws) =>
              LET requested == C27_PublicFields(cfg.entryFee, cfg.asset, cfg.maxPlayers, cfg.topic, cfg.isPublic)
                  code == draws[GeneratedCode(draws)]
              IN /\ C27_OfView(sanitizeRoom(NewRoom(users[s].walletAddress, cfg, code))) = requested
                 /\ \A new \in DOMAIN rooms' \ DOMAIN rooms :
                      /\ C27_OfView(roomGet(new)') = requested
                      /\ cfg.isPublic => C27_OfView(getPublicRooms'[new]) = requested
       ]_vars
  /\ [](\A r \in DOMAIN rooms :
          /\ "password" \notin DOMAIN sanitizeRoom(rooms[r])
          /\ "password" \notin DOMAIN sanitizeRoom(rooms[r]).config)

\* C30: the public list holds the view of a room from the step that creates
\* it public, never a private room, a room whose game is starting, running
\* or completed, or a room that is not in the store, and no longer a room
\* once room:closed was sent for it.
C30_PublicList ==
  /\ [](\A r \in DOMAIN getPublicRooms :
          /\ r \in DOMAIN rooms
          /\ rooms[r].config.isPublic
          /\ rooms[r].status \notin {"starting", "in-progress", "completed"}
          /\ getPublicRooms[r] = sanitizeRoom(rooms[r]))
  /\ [][/\ \A new \in DOMAIN rooms' \ DOMAIN rooms :
             rooms'[new].config.isPublic <=> new \in DOMAIN getPublicRooms'
        /\ \A r \in DOMAIN getPublicRooms :
             (r \in DOMAIN rooms' /\ rooms'[r].status = "waiting"
                /\ \A e \in out'.emits : ~(e.event = "room:closed" /\ e.room = r))
               => r \in DOMAIN getPublicRooms'
        /\ \A e \in out'.emits :
             (out' # out /\ e.event = "room:closed") => e.room \notin DOMAIN getPublicRooms'
       ]_vars

\* ------------------------------------------- who learns the right option
\* C29: no notification of a step has a correctAnswer entry, game:question
\* least of all; a callback gets a correctAnswer entry only from a
\* game:submitAnswer that stored, in this step, the caller's answer to the
\* question of that number, and the entry is that question's correct option.
C29_CorrectAnswerOnlyInAck ==
  [][/\ \A e \in out'.emits :
          e.event # "yellow:closeAppSession" => "correctAnswer" \notin DOMAIN Message(e, rooms')
     /\ "correctAnswer" \in DOMAIN Reply(out', rooms') =>
          \E s \in DOMAIN users, qn \in 1..MaxLen :
            LET r == out'.room
                w == users[s].walletAddress
            IN /\ out'.op = "game:submitAnswer"
               /\ CurrentRoom(s) = r
               /\ out'.emits = {Emit("game:scoreUpdate", r, w, qn)}
               /\ ~HasAnswer(rooms[r].gameData, w, qn - 1)
               /\ HasAnswer(rooms'[r].gameData, w, qn - 1)
               /\ Reply(out', rooms').correctAnswer = rooms[r].gameData.questions[qn].correctAnswer
    ]_vars

\* a player was just told the right option of the question on display,
\* after a wrong answer, while the other player has not answered it
C29_Witness ==
  /\ out.op = "game:submitAnswer"
  /\ out.room \in DOMAIN rooms
  /\ LET gd == rooms[out.room].gameData
         reply == Reply(out, rooms)
     IN /\ ~reply.isCorrect
        /\ reply.correctAnswer = 0
        /\ hist[out.room].asked # <<>>
        /\ \E e \in out.emits : e.n = gd.currentQuestionIndex + 1
        /\ \E w \in DOMAIN gd.playerScores : ~HasAnswer(gd, w, gd.currentQuestionIndex)

\* ------------------------------------------------------------- two rooms
\* Two registered connections and up to two rooms living side by side: each
\* connection may host one room and play in the other. The first room gets
\* the first code and the second room the other one.
IsoRoomIds == {1, 2}
IsoCodes == {"A1B2C3", "D4E5F6"}
IsoDraws == [i \in 1..(MaxAttempts + 1) |-> IF i <= 1 THEN "A1B2C3" ELSE "D4E5F6"]
IsoQuestions == <<Question(0)>>

IsoInit ==
  /\ users = [s \in Sockets |-> [walletAddress |-> IF s = "s1" THEN "w1" ELSE "w2", currentRoomId |-> NoRoom]]
  /\ closed = {}
  /\ rooms = <<>>
  /\ nextId = 1
  /\ starts = EmptyBag
  /\ timers = EmptyBag
  /\ settles = EmptyBag
  /\ hist = [r \in IsoRoomIds |-> [code |-> "", inits |-> 0, chains |-> 0, asked |-> <<>>]]
  /\ out = Out("init", NoRoom, "", {})

IsoNext ==
  \/ \E s \in Sockets : RoomCreate(s, DefaultConfig(2, 0), IsoDraws)
  \/ \E s \in Sockets, code \in IsoCodes : RoomJoin(s, code, NoPassword)
  \/ \E s \in Sockets : RoomLeave(s)
  \/ \E s \in Sockets : StartGame(s)
  \/ \E p \in BagToSet(starts) : FetchOk(p, IsoQuestions, FALSE)
  \/ \E p \in BagToSet(starts) : FetchFail(p, "Failed to fetch questions")
  \/ \E s \in Sockets, a \in AnswerInputs, tr \in TimeRemainingInputs : SubmitAnswer(s, 1, a, tr)
  \/ \E t \in BagToSet(timers) : FirstTimer(t)
  \/ \E t \in BagToSet(timers) : DeadlineTimer(t)
  \/ \E t \in BagToSet(timers) : CleanupTimer(t)
  \/ \E s \in Sockets : Disconnect(s)

IsoSpec == IsoInit /\ [][IsoNext]_vars

\* all the state the server holds about room r
C28_RoomState(r) ==
  [ room |-> IF r \in DOMAIN rooms THEN <<rooms[r]>> ELSE <<>>,
    timers |-> [t \in {x \in BagToSet(timers) : x.room = r} |-> CopiesIn(t, timers)],
    starts |-> [p \in {x \in BagToSet(starts) : x.room = r} |-> CopiesIn(p, starts)],
    hist |-> hist[r] ]

\* the step handles an event of room a
C28_EventOf(a) ==
  \/ \E s \in Sockets, code \in IsoCodes : findRoomByCode(code) = a /\ RoomJoin(s, code, NoPassword)
  \/ \E s \in Sockets :
       /\ CurrentRoom(s) = a
       /\ \/ RoomLeave(s)
          \/ StartGame(s)
          \/ \E x \in AnswerInputs, tr \in TimeRemainingInputs : SubmitAnswer(s, 1, x, tr)
  \/ \E p \in BagToSet(starts) :
       p.room = a /\ (FetchOk(p, IsoQuestions, FALSE) \/ FetchFail(p, "Failed to fetch questions"))
  \/ \E t \in BagToSet(timers) : t.room = a /\ (FirstTimer(t) \/ DeadlineTimer(t) \/ CleanupTimer(t))
  \/ \E s \in Sockets :
       /\ \A r \in DOMAIN rooms : BoundTo(rooms[r], s) => r = a
       /\ Disconnect(s)

\* some timer of room b fires, whatever else is going on
C28_TimerFires(b) ==
  \E t \in BagToSet(timers) : t.room = b /\ (FirstTimer(t) \/ DeadlineTimer(t) \/ CleanupTimer(t))

\* C28: a step that handles an event of room a (a join, a leave, a start, the
\* end of its question fetch, a submission, one of its timers, the
\* disconnect of a connection bound to no other room) leaves the room, the
\* timers and the suspended start of every other room b as they were; and
\* while the fetch of room a is pending, an armed timer of room b can fire,
\* and joins and submissions to room b are answered as its own state says.
C28_RoomsAreIsolated ==
  /\ [][\A a \in IsoRoomIds, b \in IsoRoomIds :
          (a # b /\ C28_EventOf(a)) => C28_RoomState(b)' = C28_RoomState(b)
       ]_vars
  /\ [](\A a \in IsoRoomIds, b \in IsoRoomIds :
          (a # b /\ BagIn(Pending(a, "fetch"), starts)) =>
            /\ (\E t \in BagToSet(timers) : t.room = b) => ENABLED C28_TimerFires(b)
            /\ \A s \in DOMAIN users :
                 /\ (b \in DOMAIN rooms /\ rooms[b].status = "waiting"
                       /\ Len(rooms[b].participants) < 2
                       /\ users[s].walletAddress \notin ParticipantWallets(rooms[b]) \cup {rooms[b].host.walletAddress})
                     => joinRoomError(rooms[b].code, users[s].walletAddress, NoPassword) = ""
                 /\ (CurrentRoom(s) = b /\ b \in DOMAIN rooms /\ rooms[b].gameData # NullGame
                       /\ ~HasAnswer(rooms[b].gameData, users[s].walletAddress, 0))
                     => submitAnswerError(s, 1) = "")

\* the host of room 1 still waits for its questions while a player of room
\* 2, created, joined and started in the meantime, has had an answer stored
C28_Witness ==
  /\ BagIn(Pending(1, "fetch"), starts)
  /\ out.op = "game:submitAnswer" /\ out.room = 2 /\ out.error = ""
  /\ 2 \in DOMAIN rooms /\ rooms[2].status = "in-progress"
  /\ hist[2].asked = <<1>>
  /\ rooms[1].status = "starting"

\* ------------------------------------------------- the settlement receipt
\* a promise settles: closeAppSession returns or throws in the end, and the
\* event loop then runs the chain endGame attached to it
SettlementsReturn == WF_vars(\E p \in BagToSet(settles), outcome \in SettleOutcomes : SettleDone(p, outcome))

SettleSpec == Init /\ [][Next]_vars /\ TimersFire /\ SettlementsReturn

\* C31: once a game has ended with a settlement session open, the room is
\* eventually sent game:prizeDistributed, reporting success or failure, by
\* the step that runs when the close call has returned or thrown.
C31_ReceiptIsBroadcast ==
  \A r \in RoomIds :
    (\E p \in BagToSet(settles) : p.room = r)
      ~> (/\ out.op = "settle" /\ out.room = r
          /\ \E e \in out.emits : e.event = "game:prizeDistributed")

\* ------------------------------------------------------ no automatic retry
\* C32: the step in which a question fetch fails takes that fetch away and
\* arms nothing: the room has no timer and no fetch under way afterwards;
\* and a fetch is only ever begun by the step of a room:startGame call that
\* the host of the waiting room made.
C32_NoAutomaticRetry ==
  [][/\ \A p \in BagToSet(starts) :
          (\E how \in FetchErrors : FetchFail(p, how)) =>
             /\ CopiesIn(p, starts') = CopiesIn(p, starts) - 1
             /\ timers' = timers
             /\ \A t \in BagToSet(timers') : t.room # p.room
             /\ hist' = hist
     /\ \A r \in RoomIds :
          CopiesIn(Pending(r, "fetch"), starts') > CopiesIn(Pending(r, "fetch"), starts) =>
             /\ out'.op = "room:startGame" /\ out'.room = r /\ out'.error = "pending"
             /\ \E s \in DOMAIN users :
                  /\ s \notin closed /\ StartGame(s)
                  /\ CurrentRoom(s) = r
                  /\ rooms[r].status = "waiting"
                  /\ rooms[r].host.walletAddress = users[s].walletAddress
    ]_vars

\* a fetch has just failed: the room waits again, with no fetch under way
\* and no timer armed
C32_Witness ==
  /\ out.op = "room:startGame" /\ out.error \in FetchErrors
  /\ out.room \in DOMAIN rooms /\ rooms[out.room].status = "waiting"
  /\ starts = EmptyBag /\ timers = EmptyBag

\* ------------------------------------------------------ the host leaves
\* C33: the step in which the host of a waiting room leaves it takes the
\* room out of the store, out of the public list, and out of reach of its
\* code.
C33_HostLeaveCloses ==
  [][\A s \in DOMAIN users :
       (/\ s \notin closed
        /\ roomLeaveError(s) = ""
        /\ rooms[CurrentRoom(s)].host.walletAddress = users[s].walletAddress
        /\ rooms[CurrentRoom(s)].status = "waiting"
        /\ RoomLeave(s))
       => \A r \in {CurrentRoom(s)}, c \in {rooms[CurrentRoom(s)].code} :
            /\ r \notin DOMAIN rooms'
            /\ r \notin DOMAIN getPublicRooms'
            /\ findRoomByCode(c)' # r
    ]_vars

\* --------------------------------------------------- answers and questions
\* C34: an answer is stored only at the index of a question that was sent to
\* the room already: an index no greater than currentQuestionIndex, whose
\* question number is among those broadcast.
C34_AnswersOnlyForAskedQuestions ==
  [][\A r \in DOMAIN rooms \cap DOMAIN rooms' :
       rooms[r].gameData # NullGame =>
         \A w \in DOMAIN rooms'[r].gameData.playerAnswers, qi \in 0..(MaxLen - 1) :
           (HasAnswer(rooms'[r].gameData, w, qi) /\ ~HasAnswer(rooms[r].gameData, w, qi)) =>
              /\ qi <= rooms[r].gameData.currentQuestionIndex
              /\ \E i \in 1..Len(hist[r].asked) : hist[r].asked[i] = qi + 1
    ]_vars

\* C35: the scores and the answers of a completed room stay as they are
\* until the room is deleted.
C35_CompletedIsFinal ==
  [][\A r \in DOMAIN rooms \cap DOMAIN rooms' :
       rooms[r].status = "completed" =>
         /\ rooms'[r].gameData.playerScores = rooms[r].gameData.playerScores
         /\ rooms'[r].gameData.playerAnswers = rooms[r].gameData.playerAnswers
    ]_vars

\* C36: a room in progress has the scores of at least two addresses.
C36_TwoPlayersInProgress ==
  \A r \in DOMAIN rooms :
    rooms[r].status = "in-progress" => Cardinality(DOMAIN rooms[r].gameData.playerScores) >= 2

\* the rooms of the store this address is host or participant of
C37_RoomsOf(w) ==
  {r \in DOMAIN rooms : w = rooms[r].host.walletAddress \/ w \in ParticipantWallets(rooms[r])}

\* C37: the address a connection is registered with is host or participant
\* of at most one room of the store.
C37_OneRoomPerAddress ==
  \A s \in DOMAIN users : Cardinality(C37_RoomsOf(users[s].walletAddress)) <= 1

\* C38: a room has game data exactly when it is in progress or completed;
\* the question index lies between 0 and the number of questions, and
\* equals that number in a completed room.
C38_GameDataAndStatus ==
  \A r \in DOMAIN rooms :
    /\ rooms[r].gameData # NullGame <=> rooms[r].status \in {"in-progress", "completed"}
    /\ rooms[r].gameData # NullGame =>
         /\ rooms[r].gameData.currentQuestionIndex \in 0..Len(rooms[r].gameData.questions)
         /\ rooms[r].status = "completed" =>
              rooms[r].gameData.currentQuestionIndex = Len(rooms[r].gameData.questions)

\* ------------------------------------------------- the end of a game, once
\* the number of entries of a bag that belong to room r
C39_Count(bag, r) ==
  BagCardinality([x \in {y \in BagToSet(bag) : y.room = r /\ ("kind" \in DOMAIN y => y.kind = "cleanup")}
                    |-> CopiesIn(x, bag)])

\* the step makes room r 'completed'
C39_Ends(r) ==
  /\ r \in DOMAIN rooms /\ r \in DOMAIN rooms'
  /\ rooms[r].status # "completed" /\ rooms'[r].status = "completed"

\* C39: the end of a game is handled once per room. The step that makes a
\* room completed is a timer step that broadcasts game:ended, arms the one
\* cleanup timer of the room and calls the settlement close at most once;
\* no other step broadcasts game:ended, arms a cleanup timer or calls the
\* close; and a completed room stays completed until it is deleted, its id
\* never coming back.
C39_EndsOnce ==
  /\ [](\A r \in RoomIds : C39_Count(timers, r) <= 1 /\ C39_Count(settles, r) <= 1)
  /\ [][\A r \in RoomIds :
          /\ C39_Ends(r) =>
               /\ out'.op \in {"timer:first", "timer:deadline"} /\ out'.room = r
               /\ Emit("game:ended", r, "", 0) \in out'.emits
               /\ C39_Count(timers, r) = 0 /\ C39_Count(timers', r) = 1
               /\ C39_Count(settles, r) = 0
               /\ C39_Count(settles', r) = Cardinality({e \in out'.emits : e.event = "yellow:closeAppSession"})
               /\ C39_Count(settles', r) = (IF rooms[r].yellowSession # NullSession THEN 1 ELSE 0)
          /\ (\/ C39_Count(timers', r) > C39_Count(timers, r)
              \/ C39_Count(settles', r) > C39_Count(settles, r)
              \/ (out' # out /\ \E e \in out'.emits :
                    e.room = r /\ e.event \in {"game:ended", "yellow:closeAppSession"}))
             => C39_Ends(r)
          /\ (r \in DOMAIN rooms /\ rooms[r].status = "completed" /\ r \in DOMAIN rooms')
             => rooms'[r].status = "completed"
          /\ (r \notin DOMAIN rooms /\ r < nextId) => r \notin DOMAIN rooms'
       ]_vars

\* a game with a settlement session has just ended: game:ended went out,
\* one cleanup timer is armed and one close call is under way
C39_Witness ==
  \E r \in DOMAIN rooms :
    /\ rooms[r].status = "completed"
    /\ out.room = r /\ Emit("game:ended", r, "", 0) \in out.emits
    /\ C39_Count(timers, r) = 1
    /\ C39_Count(settles, r) = 1

====
